---- MODULE Spec2Model ----
(***************************************************************************)
(* State-machine model of the file-parser document loader:                 *)
(*   - parseDocxTextToTables and its helpers (heuristic table              *)
(*     reconstructor), modelled on character sequences;                    *)
(*   - normaliseType, resolveWorkspacePath;                                *)
(*   - loadDocuments (ingestion loop over the descriptor list).            *)
(* A JavaScript string is a sequence of characters; a character is a       *)
(* one-character string ("ndash", "mdash", "hellip" name the non-ASCII     *)
(* characters U+2013, U+2014, U+2026).                                     *)
(***************************************************************************)
EXTENDS Integers, Sequences, FiniteSets, TLC

\* ---------------------------------------------------------------------
\* Characters and JavaScript string primitives
\* ---------------------------------------------------------------------


DigitSeq == <<"0","1","2","3","4","5","6","7","8","9">>

Digits == {DigitSeq[i] : i \in 1..Len(DigitSeq)}

DigitVal == [c \in Digits |-> (CHOOSE i \in 1..Len(DigitSeq) : DigitSeq[i] = c) - 1]

LowerSeq == <<"a","b","c","d","e","f","g","h","i","j","k","l","m",
              "n","o","p","q","r","s","t","u","v","w","x","y","z">>

UpperSeq == <<"A","B","C","D","E","F","G","H","I","J","K","L","M",
              "N","O","P","Q","R","S","T","U","V","W","X","Y","Z">>

LowerLetters == {LowerSeq[i] : i \in 1..Len(LowerSeq)}

UpperLetters == {UpperSeq[i] : i \in 1..Len(UpperSeq)}

LowerOf == [c \in UpperLetters |-> LowerSeq[CHOOSE i \in 1..Len(UpperSeq) : UpperSeq[i] = c]]

\* the characters the regular expression class \s matches
WhiteSpace == {" ", "\t", "\r", "\n"}

\* String.prototype.toLowerCase
ToLowerCase(s) == [i \in 1..Len(s) |-> IF s[i] \in UpperLetters THEN LowerOf[s[i]] ELSE s[i]]

RECURSIVE TrimStart(_)
TrimStart(s) == IF s # <<>> /\ Head(s) \in WhiteSpace THEN TrimStart(Tail(s)) ELSE s

RECURSIVE TrimEnd(_)
TrimEnd(s) ==
    IF s # <<>> /\ s[Len(s)] \in WhiteSpace THEN TrimEnd(SubSeq(s, 1, Len(s) - 1)) ELSE s

\* String.prototype.trim
Trim(s) == TrimEnd(TrimStart(s))

\* String.prototype.startsWith
StartsWith(s, p) == Len(p) <= Len(s) /\ SubSeq(s, 1, Len(p)) = p

\* String.prototype.includes
Includes(s, p) == \E i \in 0..(Len(s) - Len(p)) : SubSeq(s, i + 1, i + Len(p)) = p

\* /^\d+$/.test(s)
AllDigits(s) == s # <<>> /\ \A i \in 1..Len(s) : s[i] \in Digits

\* value of a run of decimal digits
RECURSIVE DigitsValue(_)
DigitsValue(s) ==
    IF s = <<>> THEN 0 ELSE DigitsValue(SubSeq(s, 1, Len(s) - 1)) * 10 + DigitVal[s[Len(s)]]

\* the longest prefix of s made of characters of the set cls
RECURSIVE TakeWhile(_, _)
TakeWhile(s, cls) ==
    IF s # <<>> /\ Head(s) \in cls THEN <<Head(s)>> \o TakeWhile(Tail(s), cls) ELSE <<>>

RECURSIVE DropWhile(_, _)
DropWhile(s, cls) == IF s # <<>> /\ Head(s) \in cls THEN DropWhile(Tail(s), cls) ELSE s

\* s.replace(/\s+/g, " ")
RECURSIVE CollapseWhiteSpace(_)
CollapseWhiteSpace(s) ==
    IF s = <<>> THEN <<>>
    ELSE IF Head(s) \in WhiteSpace
         THEN <<" ">> \o CollapseWhiteSpace(DropWhile(Tail(s), WhiteSpace))
         ELSE <<Head(s)>> \o CollapseWhiteSpace(Tail(s))

\* the suffix of s that starts at its first character of the set cls
RECURSIVE DropUntil(_, _)
DropUntil(s, cls) == IF s # <<>> /\ Head(s) \notin cls THEN DropUntil(Tail(s), cls) ELSE s

AlnumLower == LowerLetters \cup Digits

\* s.replace(/[^a-z0-9]+/g, " ")
RECURSIVE ReplaceNonAlnum(_)
ReplaceNonAlnum(s) ==
    IF s = <<>> THEN <<>>
    ELSE IF Head(s) \in AlnumLower
         THEN <<Head(s)>> \o ReplaceNonAlnum(Tail(s))
         ELSE <<" ">> \o ReplaceNonAlnum(DropUntil(Tail(s), AlnumLower))

\* String(n) for a non-negative integer n
RECURSIVE NatToString(_)
NatToString(n) ==
    IF n < 10 THEN <<DigitSeq[n + 1]>> ELSE NatToString(n \div 10) \o <<DigitSeq[(n % 10) + 1]>>

\* index of the first line feed of s, 0 when it has none
FirstLineFeed(s) ==
    IF \E i \in 1..Len(s) : s[i] = "\n"
    THEN CHOOSE i \in 1..Len(s) : s[i] = "\n" /\ \A j \in 1..(i - 1) : s[j] # "\n"
    ELSE 0

\* text.split(/\r?\n/): the pieces between line breaks, empty pieces included
RECURSIVE SplitLines(_)
SplitLines(s) ==
    LET n == FirstLineFeed(s)
        piece == SubSeq(s, 1, n - 1)
        cut == IF piece # <<>> /\ piece[Len(piece)] = "\r"
               THEN SubSeq(piece, 1, Len(piece) - 1)
               ELSE piece
    IN IF n = 0 THEN <<s>> ELSE <<cut>> \o SplitLines(SubSeq(s, n + 1, Len(s)))

\* pieces.join("\n")
RECURSIVE JoinLines(_)
JoinLines(ls) ==
    IF ls = <<>> THEN <<>>
    ELSE IF Len(ls) = 1 THEN ls[1]
    ELSE ls[1] \o <<"\n">> \o JoinLines(Tail(ls))

\* lines.filter(Boolean): the non-empty strings, in order
RECURSIVE FilterNonEmpty(_)
FilterNonEmpty(ls) ==
    IF ls = <<>> THEN <<>>
    ELSE IF Head(ls) = <<>> THEN FilterNonEmpty(Tail(ls))
    ELSE <<Head(ls)>> \o FilterNonEmpty(Tail(ls))

\* ---------------------------------------------------------------------
\* JavaScript values handed to parseDocxTextToTables
\* ---------------------------------------------------------------------

JsString(s) == [t |-> "string", v |-> s]

JsNumber(n) == [t |-> "number", v |-> n]

JsNull == [t |-> "null", v |-> 0]

JsUndefined == [t |-> "undefined", v |-> 0]

\* truthiness of a value
Truthy(x) ==
    CASE x.t = "string" -> x.v # <<>>
      [] x.t = "number" -> x.v # 0
      [] x.t \in {"object", "array"} -> TRUE
      [] OTHER -> FALSE

\* String(x || "")
StringOrEmpty(x) ==
    IF ~Truthy(x) THEN <<>>
    ELSE IF x.t = "number" THEN NatToString(x.v)
    ELSE x.v

\* ---------------------------------------------------------------------
\* Texts handed to the reconstructor
\* ---------------------------------------------------------------------

\* longest text, in lines, handed to parseDocxTextToTables
MaxLines == 3

\* the raw lines those texts are made of: a label alone, a label with an inline
\* value, another label of the same field, the label of another field, the
\* start-of-items marker, a row
\* number, a description (with whitespace to normalise), a quantity with a unit,
\* a line without a number, a separator, an end-of-section marker
RawLines == <<
    <<"S","i","t","e">>,
    <<"S","i","t","e",":"," ","A","n","g","e","l">>,
    <<"L","o","c","a","t","i","o","n">>,
    <<"P","r","o","j","e","c","t">>,
    <<"S","t","o","r","e","s"," ","u","s","e"," ","O","n","l","y">>,
    <<"1">>,
    <<" "," ","2","5","m","m"," ","\t"," ","p","i","p","e"," ">>,
    <<"8"," ","m">>,
    <<"t","b","c">>,
    <<"-","-">>,
    <<"S","i","g","n","e","d"," ","b","y">> >>

\* longer texts, as their lines: an end-of-section marker on the first line
\* of the window, a quantity line without a number before a complete triple,
\* row numbers out of range, the "quantity required" heading as the start,
\* triples before the start marker and after the end marker, noise lines
\* between the lines of a triple
WindowTexts == {
    << <<"S","i","g","n","e","d"," ","b","y">>, <<"1">>, <<"p","i","p","e">>, <<"8"," ","m">> >>,
    << <<"S","t","o","r","e","s"," ","u","s","e"," ","O","n","l","y">>, <<"S","t","o","r","e","m","a","n">>, <<"1">>, <<"p","i","p","e">>, <<"8"," ","m">> >>,
    << <<"1">>, <<"p","i","p","e">>, <<"t","b","c">>, <<"2">>, <<"c","a","b","l","e">>, <<"8"," ","m">> >>,
    << <<"t","b","c">>, <<"1">>, <<"p","i","p","e">>, <<"t","b","c">>, <<"8"," ","m">>, <<"2">>, <<"c","a","b","l","e">>, <<"3">> >>,
    << <<"5","0","1">>, <<"p","i","p","e">>, <<"8"," ","m">>, <<"0">>, <<"c","a","b","l","e">>, <<"3">> >>,
    << <<"Q","u","a","n","t","i","t","y"," ","R","e","q","u","i","r","e","d">>, <<"1">>, <<"p","i","p","e">>, <<"8"," ","m">>, <<"I","s","s","u","e","d"," ","b","y">>, <<"2">>, <<"c","a","b","l","e">>, <<"3">> >>,
    << <<"1">>, <<"p","i","p","e">>, <<"8"," ","m">>, <<"S","t","o","r","e","s"," ","u","s","e"," ","O","n","l","y">>, <<"2">>, <<"c","a","b","l","e">>, <<"3">> >>,
    << <<"1">>, <<"-","-">>, <<"p","i","p","e">>, <<"Q","u","a","n","t","i","t","y">>, <<"-","2",".","5"," ","m">>, <<"2">>, <<"c","a","b","l","e">>, <<"3">> >> }

WindowLines == UNION {{q[i] : i \in 1..Len(q)} : q \in WindowTexts}

\* most item triples of a text laid out like the request-form fixture
MaxItems == 2

\* the request-form fixture (tests/unit/document-loader.test.mjs): its header
\* labels with their value lines, in text order
FixtureHeader == <<
    [field |-> "Order Number",
     label |-> <<"O","r","d","e","r"," ","N","u","m","b","e","r">>,
     value |-> <<"0","0","1","-","1","6","9","9">>],
    [field |-> "Order Requested by",
     label |-> <<"O","r","d","e","r"," ","R","e","q","u","e","s","t","e","d"," ","b","y">>,
     value |-> <<"A","h","m","e","d"," ","S","h","a","i","k">>],
    [field |-> "Project",
     label |-> <<"P","r","o","j","e","c","t">>,
     value |-> <<"P","A"," ","i","n","s","t","a","l","l">>],
    [field |-> "Date Ordered",
     label |-> <<"D","a","t","e"," ","O","r","d","e","r","e","d">>,
     value |-> <<"1","2","/","0","4","/","2","5">>],
    [field |-> "Date Required",
     label |-> <<"D","a","t","e"," ","R","e","q","u","i","r","e","d">>,
     value |-> <<"1","6","/","0","4","/","2","5">>],
    [field |-> "Site",
     label |-> <<"S","i","t","e">>,
     value |-> <<"A","n","g","e","l">>] >>

FixtureHeadings == <<
    <<"S","t","o","r","e","s"," ","u","s","e"," ","O","n","l","y">>,
    <<"N","o",".">>,
    <<"M","a","t","e","r","i","a","l","/","P","l","a","n","t"," ","D","e","s","c","r","i","p","t","i","o","n">>,
    <<"Q","u","a","n","t","i","t","y"," ","R","e","q","u","i","r","e","d">> >>

\* the row-number lines of the fixture's triples, in text order
FixtureNumbers == <<<<"1">>, <<"0","2">>, <<"3">>, <<"4">>>>

FixtureDescriptions == {<<"2","5","m","m"," ","c","o","n","d","u","i","t","s">>, <<"c","a","b","l","e">>}

FixtureQuantities == {<<"8">>, <<"1","0"," ","m">>}

FixtureFooter == <<
    <<"S","i","g","n","e","d"," ","b","y">>,
    <<"S","t","o","r","e","m","a","n">> >>

\* ---------------------------------------------------------------------
\* Heuristic table reconstructor (document-loader.mjs)
\* ---------------------------------------------------------------------

DEFAULT_MAX_REQUEST_ITEMS == 500

\* normaliseLine(value) for a string value
normaliseLine(value) == Trim(CollapseWhiteSpace(value))

\* the body of normalisedKey
NormalisedKeyOf(value) == Trim(ReplaceNonAlnum(ToLowerCase(normaliseLine(value))))

\* the lines of the input vocabulary, normalised
KnownLines ==
    {normaliseLine(RawLines[i]) : i \in 1..Len(RawLines)}
    \cup WindowLines
    \cup {FixtureHeader[i].label : i \in 1..Len(FixtureHeader)}
    \cup {FixtureHeader[i].value : i \in 1..Len(FixtureHeader)}
    \cup {FixtureHeadings[i] : i \in 1..Len(FixtureHeadings)}
    \cup {FixtureNumbers[i] : i \in 1..Len(FixtureNumbers)}
    \cup FixtureDescriptions \cup FixtureQuantities
    \cup {FixtureFooter[i] : i \in 1..Len(FixtureFooter)}

\* NormalisedKeyOf on the known lines, computed once
NormalisedKeyTable == [l \in KnownLines |-> NormalisedKeyOf(l)]

\* normalisedKey(value): NormalisedKeyOf(value), read from the table when there
normalisedKey(value) ==
    IF value \in DOMAIN NormalisedKeyTable THEN NormalisedKeyTable[value]
    ELSE NormalisedKeyOf(value)

\* raw.match(/^[^:]+:\s*(.+)$/): the captured group, <<>> when there is no match
InlineMatch(raw) ==
    LET before == TakeWhile(raw, {raw[i] : i \in 1..Len(raw)} \ {":"})
        rest == SubSeq(raw, Len(before) + 2, Len(raw))
        afterWs == DropWhile(rest, WhiteSpace)
    IN IF before = <<>> \/ Len(before) = Len(raw) \/ rest = <<>> THEN <<>>
       ELSE IF afterWs # <<>> THEN afterWs
       ELSE <<rest[Len(rest)]>>

\* variants.map(normalisedKey) as the insertion-ordered Set candidateKeys
RECURSIVE CandidateKeys(_)
CandidateKeys(variants) ==
    IF variants = <<>> THEN <<>>
    ELSE LET init == CandidateKeys(SubSeq(variants, 1, Len(variants) - 1))
             key == normalisedKey(variants[Len(variants)])
         IN IF \E i \in 1..Len(init) : init[i] = key THEN init ELSE Append(init, key)

SeqHas(keys, key) == \E i \in 1..Len(keys) : keys[i] = key

\* the loop over candidateKeys taking the next line whatever it looks like
RECURSIVE HeaderKeyLoopTakingAnyNextLine(_, _, _, _, _)
HeaderKeyLoopTakingAnyNextLine(lines, candidateKeys, i, normalized, k) ==
    IF k > Len(candidateKeys) THEN [found |-> FALSE, value |-> <<>>]
    ELSE LET key == candidateKeys[k]
             inlineMatch == InlineMatch(lines[i + 1])
             next == normaliseLine(lines[i + 2])
         IN IF ~StartsWith(normalized, key)
            THEN HeaderKeyLoopTakingAnyNextLine(lines, candidateKeys, i, normalized, k + 1)
            ELSE IF inlineMatch # <<>>
            THEN [found |-> TRUE, value |-> normaliseLine(inlineMatch)]
            ELSE IF normalized = key /\ i + 1 < Len(lines) /\ next # <<>>
            THEN [found |-> TRUE, value |-> next]
            ELSE HeaderKeyLoopTakingAnyNextLine(lines, candidateKeys, i, normalized, k + 1)

\* the loop over candidateKeys for line i (0-based) with normalised key
\* `normalized`, from the k-th key on: [found |-> TRUE, value |-> v] when the
\* loop returns v
RECURSIVE HeaderKeyLoop(_, _, _, _, _)
HeaderKeyLoop(lines, candidateKeys, i, normalized, k) ==
    IF k > Len(candidateKeys) THEN [found |-> FALSE, value |-> <<>>]
    ELSE LET key == candidateKeys[k]
             inlineMatch == InlineMatch(lines[i + 1])
             next == normaliseLine(lines[i + 2])
         IN IF ~StartsWith(normalized, key)
            THEN HeaderKeyLoop(lines, candidateKeys, i, normalized, k + 1)
            ELSE IF inlineMatch # <<>>
            THEN [found |-> TRUE, value |-> normaliseLine(inlineMatch)]
            ELSE IF normalized = key /\ i + 1 < Len(lines)
                    /\ next # <<>> /\ ~SeqHas(candidateKeys, normalisedKey(next))
            THEN [found |-> TRUE, value |-> next]
            ELSE HeaderKeyLoop(lines, candidateKeys, i, normalized, k + 1)

\* the loop over the lines, from line i (0-based) on: the value returned
RECURSIVE HeaderLineLoop(_, _, _)
HeaderLineLoop(lines, candidateKeys, i) ==
    IF i >= Len(lines) THEN <<>>
    ELSE LET normalized == normalisedKey(lines[i + 1])
             r == HeaderKeyLoop(lines, candidateKeys, i, normalized, 1)
         IN IF normalized = <<>> THEN HeaderLineLoop(lines, candidateKeys, i + 1)
            ELSE IF r.found THEN r.value
            ELSE HeaderLineLoop(lines, candidateKeys, i + 1)

\* the six canonical header fields, in payload order
HeaderFields == <<"Order Number", "Order Requested by", "Project", "Site",
                  "Date Ordered", "Date Required">>

HeaderFieldSet == {HeaderFields[i] : i \in 1..Len(HeaderFields)}

\* the label variants extractDocxRequestHeader passes for each field
HeaderVariants ==
    [f \in HeaderFieldSet |->
        CASE f = "Order Number" -> <<
               <<"O","r","d","e","r"," ","N","u","m","b","e","r">>,
               <<"J","o","b"," ","N","u","m","b","e","r">>,
               <<"J","o","b"," ","I","D">>,
               <<"O","r","d","e","r"," ","I","D">> >>
          [] f = "Order Requested by" -> <<
               <<"O","r","d","e","r"," ","R","e","q","u","e","s","t","e","d"," ","b","y">>,
               <<"R","e","q","u","e","s","t","e","d"," ","B","y">>,
               <<"O","r","d","e","r","e","d"," ","B","y">>,
               <<"C","l","i","e","n","t">> >>
          [] f = "Project" -> <<
               <<"P","r","o","j","e","c","t">>,
               <<"J","o","b"," ","N","a","m","e">> >>
          [] f = "Site" -> <<
               <<"S","i","t","e">>,
               <<"L","o","c","a","t","i","o","n">> >>
          [] f = "Date Ordered" -> <<
               <<"D","a","t","e"," ","O","r","d","e","r","e","d">>,
               <<"C","r","e","a","t","e","d">>,
               <<"D","a","t","e">> >>
          [] f = "Date Required" -> <<
               <<"D","a","t","e"," ","R","e","q","u","i","r","e","d">>,
               <<"R","e","q","u","i","r","e","d"," ","D","a","t","e">>,
               <<"N","e","e","d"," ","B","y">> >>]

\* candidateKeys of the six variants lists, computed once
CandidateKeysTable ==
    [v \in {HeaderVariants[f] : f \in HeaderFieldSet} |-> CandidateKeys(v)]

extractDocxHeaderValue(lines, variants) ==
    HeaderLineLoop(lines,
                   IF variants \in DOMAIN CandidateKeysTable
                   THEN CandidateKeysTable[variants]
                   ELSE CandidateKeys(variants),
                   0)

\* the payload of extractDocxRequestHeader, before the hasAnyValue test
HeaderPayload(lines) == [f \in HeaderFieldSet |-> extractDocxHeaderValue(lines, HeaderVariants[f])]

\* extractDocxRequestHeader testing only the first field for a value
extractDocxRequestHeaderFirstField(lines) ==
    LET payload == HeaderPayload(lines)
        hasAnyValue == normaliseLine(payload["Order Number"]) # <<>>
    IN [present |-> hasAnyValue, row |-> payload]

\* extractDocxRequestHeader: [present |-> TRUE, row |-> payload], or present = FALSE
\* for the null it returns when no field has a value
extractDocxRequestHeader(lines) ==
    LET payload == HeaderPayload(lines)
        hasAnyValue == \E f \in HeaderFieldSet : normaliseLine(payload[f]) # <<>>
    IN [present |-> hasAnyValue, row |-> payload]

buildDocxNoiseSet == {
    <<"m","e","t","a","d","a","t","a">>,
    <<"c","o","n","t","e","n","t">>,
    <<"s","t","o","r","e","s"," ","u","s","e"," ","o","n","l","y">>,
    <<"s","t","o","r","e","s"," ","u","s","e">>,
    <<"n","o">>,
    <<"m","a","t","e","r","i","a","l"," ","p","l","a","n","t"," ","d","e","s","c","r","i","p","t","i","o","n">>,
    <<"m","a","t","e","r","i","a","l">>,
    <<"p","l","a","n","t"," ","d","e","s","c","r","i","p","t","i","o","n">>,
    <<"q","u","a","n","t","i","t","y">>,
    <<"r","e","q","u","i","r","e","d">>,
    <<"q","u","a","n","t","i","t","y"," ","r","e","q","u","i","r","e","d">>,
    <<"q","u","a","n","t","i","t","y"," ","i","s","s","u","e","d">>,
    <<"i","s","s","u","e","d">>,
    <<"q","u","a","n","t","i","t","y"," ","s","h","o","r","t">>,
    <<"s","h","o","r","t">>,
    <<"q","u","a","n","t","i","t","y"," ","r","e","t","u","r","n","e","d">>,
    <<"r","e","t","u","r","n","e","d">>,
    <<"c","c","l"," ","n","o">>,
    <<"o","r","d","e","r"," ","n","u","m","b","e","r">>,
    <<"o","r","d","e","r"," ","r","e","q","u","e","s","t","e","d"," ","b","y">>,
    <<"d","a","t","e"," ","o","r","d","e","r","e","d">>,
    <<"p","r","o","j","e","c","t">>,
    <<"d","a","t","e"," ","r","e","q","u","i","r","e","d">>,
    <<"s","i","t","e">> }

isDocxNoiseLine(line, noiseSet) ==
    LET text == normaliseLine(line)
        normalized == normalisedKey(text)
    IN IF text = <<>> THEN TRUE
       ELSE IF \A i \in 1..Len(text) : text[i] \in {"-", "ndash", "mdash", ":"} THEN TRUE
       ELSE IF normalized = <<>> THEN TRUE
       ELSE IF normalized \in noiseSet THEN TRUE
       ELSE StartsWith(normalized, <<"q","u","a","n","t","i","t","y"," ">>) \/ StartsWith(normalized, <<"o","r","d","e","r"," ">>)

endSectionMarkers == <<
    <<"s","i","g","n","e","d"," ","b","y">>,
    <<"i","s","s","u","e"," ","b","y">>,
    <<"i","s","s","u","e","d"," ","b","y">>,
    <<"r","e","c","e","i","v","e","d"," ","b","y">>,
    <<"r","e","t","u","r","n","e","d"," ","b","y">>,
    <<"s","t","o","r","e","m","a","n">> >>

\* parseNumberToken(value) for a string value: [ok |-> FALSE] for null, else the
\* number matched by /-?\d+(?:\.\d+)?/ as sign, whole part and fraction digits
parseNumberToken(value) ==
    LET text == normaliseLine(value)
        hasDigit == \E i \in 1..Len(text) : text[i] \in Digits
        d == CHOOSE i \in 1..Len(text) :
                 text[i] \in Digits /\ \A j \in 1..(i - 1) : text[j] \notin Digits
        whole == TakeWhile(SubSeq(text, d, Len(text)), Digits)
        after == SubSeq(text, d + Len(whole), Len(text))
        frac == IF after # <<>> /\ Head(after) = "." THEN TakeWhile(Tail(after), Digits)
                ELSE <<>>
    IN IF text = <<>> \/ ~hasDigit THEN [ok |-> FALSE, neg |-> FALSE, whole |-> 0, frac |-> <<>>]
       ELSE [ok |-> TRUE,
             neg |-> d > 1 /\ text[d - 1] = "-",
             whole |-> DigitsValue(whole),
             frac |-> frac]

\* Math.trunc of a parsed number
MathTrunc(n) == IF n.neg THEN 0 - n.whole ELSE n.whole

\* lines.findIndex(p), given p's value on each line: the 0-based index of the
\* first line where it is true, -1 when there is none
FindIndex(hits) ==
    IF \E i \in 1..Len(hits) : hits[i]
    THEN (CHOOSE i \in 1..Len(hits) : hits[i] /\ \A j \in 1..(i - 1) : ~hits[j]) - 1
    ELSE 0 - 1

storesMarkerIndex(lines) ==
    FindIndex([i \in 1..Len(lines) |-> Includes(normalisedKey(lines[i]), <<"s","t","o","r","e","s"," ","u","s","e">>)])

quantityHeaderIndex(lines) ==
    FindIndex([i \in 1..Len(lines) |-> normalisedKey(lines[i]) = <<"q","u","a","n","t","i","t","y"," ","r","e","q","u","i","r","e","d">>])

startIndex(lines) ==
    IF storesMarkerIndex(lines) >= 0 THEN storesMarkerIndex(lines) + 1
    ELSE IF quantityHeaderIndex(lines) >= 0 THEN quantityHeaderIndex(lines) + 1
    ELSE 0

\* endSectionMarkers.some((marker) => normalized.includes(marker))
IsEndSection(normalized) ==
    \E m \in 1..Len(endSectionMarkers) : Includes(normalized, endSectionMarkers[m])

\* endIndexExclusive that never finds an end-of-section marker
endIndexExclusiveIgnoringMarkers(lines) == Len(lines)

endIndexExclusive(lines) ==
    LET start == startIndex(lines)
        index == FindIndex([i \in 1..Len(lines) |->
                               ~((i - 1) <= start) /\ IsEndSection(normalisedKey(lines[i]))])
    IN IF index >= 0 THEN index ELSE Len(lines)

\* lines.slice(startIndex, endIndexExclusive)
scopedLinesOf(lines) == SubSeq(lines, startIndex(lines) + 1, endIndexExclusive(lines))

\* the while loops that skip noise lines: the first index >= from (0-based) whose
\* line is not noise, or scopedLines.length
RECURSIVE SkipNoise(_, _)
SkipNoise(scopedLines, from) ==
    IF from < Len(scopedLines) /\ isDocxNoiseLine(scopedLines[from + 1], buildDocxNoiseSet)
    THEN SkipNoise(scopedLines, from + 1)
    ELSE from

\* the test that rejects a line as a row number
NotRowNumber(candidate) ==
    LET lineNo == parseNumberToken(candidate)
        lineNoInt == IF lineNo.ok THEN MathTrunc(lineNo) ELSE 0
    IN \/ ~lineNo.ok
       \/ lineNoInt = 0
       \/ lineNoInt <= 0
       \/ lineNoInt > DEFAULT_MAX_REQUEST_ITEMS
       \/ ~AllDigits(normaliseLine(candidate))

\* NotDescription letting a line of digits through
NotDescriptionAcceptingDigits(description) ==
    \/ description = <<>>
    \/ isDocxNoiseLine(description, buildDocxNoiseSet)

\* the test that rejects a line as a description
NotDescription(description) ==
    \/ description = <<>>
    \/ AllDigits(description)
    \/ isDocxNoiseLine(description, buildDocxNoiseSet)

\* ScanIteration storing the parsed number in place of the quantity's text
ScanIterationParsedQuantity(scopedLines, cursor, rows) ==
    LET candidate == scopedLines[cursor + 1]
        descriptionIndex == SkipNoise(scopedLines, cursor + 1)
        description == normaliseLine(scopedLines[descriptionIndex + 1])
        quantityIndex == SkipNoise(scopedLines, descriptionIndex + 1)
        quantityRaw == normaliseLine(scopedLines[quantityIndex + 1])
        quantityNumber == parseNumberToken(quantityRaw)
        out(c, r, b, k) == [cursor |-> c, rows |-> r, brk |-> b, branch |-> k]
    IN IF NotRowNumber(candidate)
       THEN out(cursor + 1, rows, FALSE, "not-row-number")
       ELSE IF descriptionIndex >= Len(scopedLines)
       THEN out(cursor, rows, TRUE, "no-description")
       ELSE IF NotDescription(description)
       THEN out(cursor + 1, rows, FALSE, "bad-description")
       ELSE IF quantityIndex >= Len(scopedLines)
       THEN out(cursor, rows, TRUE, "no-quantity-line")
       ELSE IF ~quantityNumber.ok
       THEN out(descriptionIndex + 1, rows, FALSE, "backtrack")
       ELSE out(quantityIndex + 1,
                Append(rows, [No |-> MathTrunc(parseNumberToken(candidate)),
                              Description |-> description,
                              Quantity |-> NatToString(quantityNumber.whole)]),
                FALSE, "row")

\* ScanIteration leaving the loop when the quantity line holds no number
ScanIterationAbortingOnMissingQuantity(scopedLines, cursor, rows) ==
    LET candidate == scopedLines[cursor + 1]
        descriptionIndex == SkipNoise(scopedLines, cursor + 1)
        description == normaliseLine(scopedLines[descriptionIndex + 1])
        quantityIndex == SkipNoise(scopedLines, descriptionIndex + 1)
        quantityRaw == normaliseLine(scopedLines[quantityIndex + 1])
        quantityNumber == parseNumberToken(quantityRaw)
        out(c, r, b, k) == [cursor |-> c, rows |-> r, brk |-> b, branch |-> k]
    IN IF NotRowNumber(candidate)
       THEN out(cursor + 1, rows, FALSE, "not-row-number")
       ELSE IF descriptionIndex >= Len(scopedLines)
       THEN out(cursor, rows, TRUE, "no-description")
       ELSE IF NotDescription(description)
       THEN out(cursor + 1, rows, FALSE, "bad-description")
       ELSE IF quantityIndex >= Len(scopedLines)
       THEN out(cursor, rows, TRUE, "no-quantity-line")
       ELSE IF ~quantityNumber.ok
       THEN out(cursor, rows, TRUE, "backtrack")
       ELSE out(quantityIndex + 1,
                Append(rows, [No |-> MathTrunc(parseNumberToken(candidate)),
                              Description |-> description,
                              Quantity |-> quantityRaw]),
                FALSE, "row")

\* ScanIteration leaving the cursor on the candidate when the quantity line
\* holds no number
ScanIterationRetryingCandidate(scopedLines, cursor, rows) ==
    LET candidate == scopedLines[cursor + 1]
        descriptionIndex == SkipNoise(scopedLines, cursor + 1)
        description == normaliseLine(scopedLines[descriptionIndex + 1])
        quantityIndex == SkipNoise(scopedLines, descriptionIndex + 1)
        quantityRaw == normaliseLine(scopedLines[quantityIndex + 1])
        quantityNumber == parseNumberToken(quantityRaw)
        out(c, r, b, k) == [cursor |-> c, rows |-> r, brk |-> b, branch |-> k]
    IN IF NotRowNumber(candidate)
       THEN out(cursor + 1, rows, FALSE, "not-row-number")
       ELSE IF descriptionIndex >= Len(scopedLines)
       THEN out(cursor, rows, TRUE, "no-description")
       ELSE IF NotDescription(description)
       THEN out(cursor + 1, rows, FALSE, "bad-description")
       ELSE IF quantityIndex >= Len(scopedLines)
       THEN out(cursor, rows, TRUE, "no-quantity-line")
       ELSE IF ~quantityNumber.ok
       THEN out(cursor, rows, FALSE, "backtrack")
       ELSE out(quantityIndex + 1,
                Append(rows, [No |-> MathTrunc(parseNumberToken(candidate)),
                              Description |-> description,
                              Quantity |-> quantityRaw]),
                FALSE, "row")

\* ScanIteration leaving the cursor on the quantity line after a row
ScanIterationReusingQuantity(scopedLines, cursor, rows) ==
    LET candidate == scopedLines[cursor + 1]
        descriptionIndex == SkipNoise(scopedLines, cursor + 1)
        description == normaliseLine(scopedLines[descriptionIndex + 1])
        quantityIndex == SkipNoise(scopedLines, descriptionIndex + 1)
        quantityRaw == normaliseLine(scopedLines[quantityIndex + 1])
        quantityNumber == parseNumberToken(quantityRaw)
        out(c, r, b, k) == [cursor |-> c, rows |-> r, brk |-> b, branch |-> k]
    IN IF NotRowNumber(candidate)
       THEN out(cursor + 1, rows, FALSE, "not-row-number")
       ELSE IF descriptionIndex >= Len(scopedLines)
       THEN out(cursor, rows, TRUE, "no-description")
       ELSE IF NotDescription(description)
       THEN out(cursor + 1, rows, FALSE, "bad-description")
       ELSE IF quantityIndex >= Len(scopedLines)
       THEN out(cursor, rows, TRUE, "no-quantity-line")
       ELSE IF ~quantityNumber.ok
       THEN out(descriptionIndex + 1, rows, FALSE, "backtrack")
       ELSE out(quantityIndex,
                Append(rows, [No |-> MathTrunc(parseNumberToken(candidate)),
                              Description |-> description,
                              Quantity |-> quantityRaw]),
                FALSE, "row")

\* one iteration of the cursor loop of extractDocxRequestItems, entered with
\* cursor < scopedLines.length and rows.length < DEFAULT_MAX_REQUEST_ITEMS:
\* the cursor and rows after it, whether it left the loop by break, and the
\* branch it took
ScanIteration(scopedLines, cursor, rows) ==
    LET candidate == scopedLines[cursor + 1]
        descriptionIndex == SkipNoise(scopedLines, cursor + 1)
        description == normaliseLine(scopedLines[descriptionIndex + 1])
        quantityIndex == SkipNoise(scopedLines, descriptionIndex + 1)
        quantityRaw == normaliseLine(scopedLines[quantityIndex + 1])
        quantityNumber == parseNumberToken(quantityRaw)
        out(c, r, b, k) == [cursor |-> c, rows |-> r, brk |-> b, branch |-> k]
    IN IF NotRowNumber(candidate)
       THEN out(cursor + 1, rows, FALSE, "not-row-number")
       ELSE IF descriptionIndex >= Len(scopedLines)
       THEN out(cursor, rows, TRUE, "no-description")
       ELSE IF NotDescription(description)
       THEN out(cursor + 1, rows, FALSE, "bad-description")
       ELSE IF quantityIndex >= Len(scopedLines)
       THEN out(cursor, rows, TRUE, "no-quantity-line")
       ELSE IF ~quantityNumber.ok
       THEN out(descriptionIndex + 1, rows, FALSE, "backtrack")
       ELSE out(quantityIndex + 1,
                Append(rows, [No |-> MathTrunc(parseNumberToken(candidate)),
                              Description |-> description,
                              Quantity |-> quantityRaw]),
                FALSE, "row")

\* the condition of the cursor loop
ScanContinues(scopedLines, cursor, rows) ==
    cursor < Len(scopedLines) /\ Len(rows) < DEFAULT_MAX_REQUEST_ITEMS

\* the cursor loop run to its end: the rows it returns
RECURSIVE ScanLoop(_, _, _)
ScanLoop(scopedLines, cursor, rows) ==
    IF ~ScanContinues(scopedLines, cursor, rows) THEN rows
    ELSE LET it == ScanIteration(scopedLines, cursor, rows)
         IN IF it.brk THEN it.rows ELSE ScanLoop(scopedLines, it.cursor, it.rows)

extractDocxRequestItems(lines) == ScanLoop(scopedLinesOf(lines), 0, <<>>)

\* the lines parseDocxTextToTables works on
NormalisedLines(text) ==
    LET pieces == SplitLines(StringOrEmpty(text))
    IN FilterNonEmpty([i \in 1..Len(pieces) |-> normaliseLine(pieces[i])])

HeaderTable(headerRow) ==
    [name |-> "Request Header", totalRows |-> 1, sampleRows |-> <<headerRow>>]

ItemsTable(requestItems) ==
    [name |-> "Request Items", totalRows |-> Len(requestItems), sampleRows |-> requestItems]

\* the tables pushed for the header row and for the item rows
TablesOf(header, requestItems) ==
    (IF header.present THEN <<HeaderTable(header.row)>> ELSE <<>>)
    \o (IF requestItems # <<>> THEN <<ItemsTable(requestItems)>> ELSE <<>>)

parseDocxTextToTables(text) ==
    LET lines == NormalisedLines(text)
    IN IF lines = <<>> THEN <<>>
       ELSE TablesOf(extractDocxRequestHeader(lines), extractDocxRequestItems(lines))

\* ---------------------------------------------------------------------
\* node:path (posix) and path-utils.mjs
\* ---------------------------------------------------------------------

\* process.cwd()
Cwd == <<"/","c","w","d">>

\* the pieces of s between the separators "/"
RECURSIVE SplitPath(_)
SplitPath(s) ==
    LET seg == TakeWhile(s, {s[i] : i \in 1..Len(s)} \ {"/"})
    IN IF Len(seg) = Len(s) THEN <<seg>>
       ELSE <<seg>> \o SplitPath(SubSeq(s, Len(seg) + 2, Len(s)))

\* normalizeString: "." and empty segments dropped, ".." removing the segment
\* before it (nothing above the root)
RECURSIVE NormalizeSegments(_, _)
NormalizeSegments(segs, acc) ==
    IF segs = <<>> THEN acc
    ELSE IF Head(segs) = <<>> \/ Head(segs) = <<".">>
    THEN NormalizeSegments(Tail(segs), acc)
    ELSE IF Head(segs) = <<".", ".">>
    THEN NormalizeSegments(Tail(segs),
                           IF acc = <<>> THEN acc ELSE SubSeq(acc, 1, Len(acc) - 1))
    ELSE NormalizeSegments(Tail(segs), Append(acc, Head(segs)))

RECURSIVE JoinPath(_)
JoinPath(segs) == IF segs = <<>> THEN <<>> ELSE <<"/">> \o Head(segs) \o JoinPath(Tail(segs))

\* path.isAbsolute
PathIsAbsolute(p) == p # <<>> /\ Head(p) = "/"

\* path.resolve(base, rel): right to left until an absolute path is built, empty
\* arguments skipped, the working directory last; then normalised
PathResolve(base, rel) ==
    LET joined == IF PathIsAbsolute(rel) THEN rel
                  ELSE IF PathIsAbsolute(base) THEN base \o <<"/">> \o rel
                  ELSE Cwd \o <<"/">> \o base \o <<"/">> \o rel
        segs == NormalizeSegments(SplitPath(joined), <<>>)
    IN IF segs = <<>> THEN <<"/">> ELSE JoinPath(segs)

\* path.extname: from the last "." of the last segment (trailing separators
\* aside) to its end; empty when there is no ".", when the segment begins with
\* its only ".", and for ".."
RECURSIVE StripTrailingSlashes(_)
StripTrailingSlashes(p) ==
    IF p # <<>> /\ p[Len(p)] = "/" THEN StripTrailingSlashes(SubSeq(p, 1, Len(p) - 1)) ELSE p

PathExtname(p) ==
    LET segs == SplitPath(StripTrailingSlashes(p))
        base == segs[Len(segs)]
        hasDot == \E i \in 1..Len(base) : base[i] = "."
        startDot == CHOOSE i \in 1..Len(base) :
                        base[i] = "." /\ \A j \in (i + 1)..Len(base) : base[j] # "."
    IN IF ~hasDot \/ startDot = 1 \/ base = <<".", ".">> THEN <<>>
       ELSE SubSeq(base, startDot, Len(base))

\* targetPath.replace(/\\/g, "/")
sanitizePath(targetPath) ==
    [i \in 1..Len(targetPath) |-> IF targetPath[i] = "\\" THEN "/" ELSE targetPath[i]]

\* the outcome of a call: a returned value, or a thrown Error with its message
Returned(v) == [threw |-> FALSE, value |-> v, message |-> ""]

Threw(m) == [threw |-> TRUE, value |-> <<>>, message |-> m]

\* resolveWorkspacePath throwing for what is no string only
resolveWorkspacePathAcceptingEmpty(filePath, workspaceRoot) ==
    IF filePath.t # "string"
    THEN Threw("Expected file path to be a non-empty string.")
    ELSE LET trimmed == Trim(filePath.v)
             baseRoot == IF Truthy(workspaceRoot) /\ Trim(workspaceRoot.v) # <<>>
                         THEN Trim(workspaceRoot.v)
                         ELSE Cwd
             candidate == IF PathIsAbsolute(trimmed) THEN trimmed
                          ELSE PathResolve(baseRoot, trimmed)
         IN Returned(sanitizePath(candidate))

\* resolveWorkspacePath(filePath, { workspaceRoot }), cwd = process.cwd();
\* filePath and workspaceRoot are values (a string, null, undefined, a number)
resolveWorkspacePath(filePath, workspaceRoot) ==
    IF ~Truthy(filePath) \/ filePath.t # "string"
    THEN Threw("Expected file path to be a non-empty string.")
    ELSE LET trimmed == Trim(filePath.v)
             baseRoot == IF Truthy(workspaceRoot) /\ Trim(workspaceRoot.v) # <<>>
                         THEN Trim(workspaceRoot.v)
                         ELSE Cwd
             candidate == IF PathIsAbsolute(trimmed) THEN trimmed
                          ELSE PathResolve(baseRoot, trimmed)
         IN Returned(sanitizePath(candidate))

\* ---------------------------------------------------------------------
\* Type resolver (document-loader.mjs)
\* ---------------------------------------------------------------------

\* SUPPORTED_TYPES: extension -> type
SUPPORTED_TYPES ==
    [e \in {<<".","p","d","f">>, <<".","t","x","t">>, <<".","t","e","x","t">>, <<".","l","o","g">>, <<".","m","d">>, <<".","d","o","c","x">>, <<".","d","o","c">>, <<".","x","l","s","x">>, <<".","x","l","s">>} |->
        CASE e = <<".","p","d","f">> -> <<"p","d","f">>
          [] e \in {<<".","t","x","t">>, <<".","t","e","x","t">>, <<".","l","o","g">>, <<".","m","d">>} -> <<"t","x","t">>
          [] e = <<".","d","o","c","x">> -> <<"d","o","c","x">>
          [] e = <<".","d","o","c">> -> <<"d","o","c">>
          [] e \in {<<".","x","l","s","x">>, <<".","x","l","s">>} -> <<"x","l","s","x">>]

\* Array.from(SUPPORTED_TYPES.values())
SupportedTypeValues == {SUPPORTED_TYPES[e] : e \in DOMAIN SUPPORTED_TYPES}

\* normaliseType ignoring the hint
normaliseTypeExtensionOnly(inputType, filePath) ==
    LET ext == ToLowerCase(PathExtname(filePath))
    IN IF ext \in DOMAIN SUPPORTED_TYPES THEN JsString(SUPPORTED_TYPES[ext]) ELSE JsNull

\* normaliseType(inputType, filePath): the type as a string value, or null
normaliseType(inputType, filePath) ==
    LET lowered == ToLowerCase(inputType.v)
        ext == ToLowerCase(PathExtname(filePath))
    IN IF Truthy(inputType) /\ inputType.t = "string" /\ lowered \in SupportedTypeValues
       THEN JsString(lowered)
       ELSE IF ext \in DOMAIN SUPPORTED_TYPES THEN JsString(SUPPORTED_TYPES[ext])
       ELSE JsNull

\* ---------------------------------------------------------------------
\* Files and the extraction libraries (the loader's environment)
\* ---------------------------------------------------------------------

\* UTF-8 code of the one-byte characters of the files (the control characters
\* by their code point)
CharCode ==
    "a" :> 97 @@ "b" :> 98 @@ " " :> 32 @@ "\n" :> 10 @@ "%" :> 37 @@ "P" :> 80 @@
    "D" :> 68 @@ "F" :> 70 @@ "K" :> 75 @@ "u0003" :> 3 @@ "u0004" :> 4 @@
    "u0005" :> 5 @@ "u0006" :> 6 @@ "u0011" :> 17

\* Buffer.from(text, "utf8"); U+FFFD is the three bytes EF BF BD
RECURSIVE Utf8Encode(_)
Utf8Encode(s) ==
    IF s = <<>> THEN <<>>
    ELSE (IF Head(s) = "ufffd" THEN <<239, 191, 189>> ELSE <<CharCode[Head(s)]>>)
         \o Utf8Encode(Tail(s))

\* the utf8 decoding of fs.readFile(path, "utf8"): a byte that is no valid
\* sequence becomes U+FFFD
RECURSIVE Utf8Decode(_)
Utf8Decode(b) ==
    IF b = <<>> THEN <<>>
    ELSE IF \E c \in DOMAIN CharCode : CharCode[c] = Head(b)
    THEN <<CHOOSE c \in DOMAIN CharCode : CharCode[c] = Head(b)>> \o Utf8Decode(Tail(b))
    ELSE IF Len(b) >= 3 /\ SubSeq(b, 1, 3) = <<239, 191, 189>>
    THEN <<"ufffd">> \o Utf8Decode(SubSeq(b, 4, Len(b)))
    ELSE <<"ufffd">> \o Utf8Decode(Tail(b))

\* what the files hold: the bytes, the format they are in, and what the library
\* of that format extracts from them (pdf-parse: text and numpages; mammoth:
\* value; word-extractor: body; xlsx: the sheets with their rows)
NoSheets == <<>>

Contents ==
    [c \in {"text", "text2", "badutf8", "empty", "pdf", "docx", "docx2", "doc", "xlsx",
           "pdf2", "doc2", "xlsx2"} |->
        CASE c = "text" ->
                [bytes |-> <<97, 32, 98, 10, 98>>, format |-> "txt",
                 extracted |-> <<>>, numpages |-> 0, sheets |-> NoSheets]
          [] c = "text2" ->
                [bytes |-> <<98, 32, 97>>, format |-> "txt",
                 extracted |-> <<>>, numpages |-> 0, sheets |-> NoSheets]
          [] c = "badutf8" ->
                [bytes |-> <<97, 255>>, format |-> "txt",
                 extracted |-> <<>>, numpages |-> 0, sheets |-> NoSheets]
          [] c = "empty" ->
                [bytes |-> <<>>, format |-> "txt",
                 extracted |-> <<>>, numpages |-> 0, sheets |-> NoSheets]
          [] c = "pdf" ->
                [bytes |-> <<37, 80, 68, 70>>, format |-> "pdf",
                 extracted |-> <<" ","a"," ","b"," ","\n">>, numpages |-> 2, sheets |-> NoSheets]
          [] c = "docx" ->
                [bytes |-> <<80, 75, 3, 4>>, format |-> "docx",
                 extracted |-> <<"S","i","t","e",":"," ","A","n","g","e","l","\n","1","\n","2","5","m","m"," ","p","i","p","e","\n","8"," ","m">>, numpages |-> 0, sheets |-> NoSheets]
          [] c = "docx2" ->
                [bytes |-> <<80, 75, 3, 4, 5>>, format |-> "docx",
                 extracted |-> <<"P","r","o","j","e","c","t",":"," ","P","A","\n","S","t","o","r","e","s"," ","u","s","e"," ","o","n","l","y","\n","1","\n","p","i","p","e","\n","8"," ","m","\n","2","\n","c","a","b","l","e","\n","3">>, numpages |-> 0, sheets |-> NoSheets]
          [] c = "doc" ->
                [bytes |-> <<208, 207, 17>>, format |-> "doc",
                 extracted |-> <<"b"," ","a">>, numpages |-> 0, sheets |-> NoSheets]
          [] c = "xlsx" ->
                [bytes |-> <<80, 75, 5, 6>>, format |-> "xlsx",
                 extracted |-> <<>>, numpages |-> 0,
                 sheets |-> << [name |-> <<"S","1">>, rows |-> <<"r1", "r2", "r3", "r4", "r5">>],
                               [name |-> <<"E","m","p","t","y">>, rows |-> <<>>] >>]
          [] c = "pdf2" ->
                [bytes |-> <<37, 80, 68, 70, 50>>, format |-> "pdf",
                 extracted |-> <<"c"," ","d">>, numpages |-> 1, sheets |-> NoSheets]
          [] c = "doc2" ->
                [bytes |-> <<208, 207, 17, 2>>, format |-> "doc",
                 extracted |-> <<"c"," ","d">>, numpages |-> 0, sheets |-> NoSheets]
          [] c = "xlsx2" ->
                [bytes |-> <<80, 75, 5, 6, 2>>, format |-> "xlsx",
                 extracted |-> <<>>, numpages |-> 0,
                 sheets |-> << [name |-> <<"S","2">>, rows |-> <<"q1">>] >>]]

\* a file system entry: a file or a directory, readable by the process or not
File(c) == [dir |-> FALSE, readable |-> TRUE, content |-> c, mtime |-> 2, ctime |-> 1]

Unreadable(c) == [dir |-> FALSE, readable |-> FALSE, content |-> c, mtime |-> 2, ctime |-> 1]

Directory == [dir |-> TRUE, readable |-> TRUE, content |-> "empty", mtime |-> 3, ctime |-> 3]

\* the files of the disk the loader runs on, by absolute path
Disk ==
    <<"/","c","w","d">> :> Directory @@
    <<"/","c","w","d","/","a",".","t","x","t">> :> File("text") @@
    <<"/","c","w","d","/","b",".","t","x","t">> :> File("text2") @@
    <<"/","c","w","d","/","b","a","d",".","t","x","t">> :> File("badutf8") @@
    <<"/","c","w","d","/","d","i","r",".","t","x","t">> :> Directory @@
    <<"/","c","w","d","/","l","o","c","k","e","d",".","t","x","t">> :> Unreadable("text") @@
    <<"/","c","w","d","/","x",".","c","s","v">> :> File("text") @@
    <<"/","c","w","d","/","r",".","p","d","f">> :> File("pdf") @@
    <<"/","c","w","d","/","f",".","d","o","c","x">> :> File("docx") @@
    <<"/","c","w","d","/","g",".","d","o","c","x">> :> File("docx2") @@
    <<"/","c","w","d","/","w",".","d","o","c">> :> File("doc") @@
    <<"/","c","w","d","/","s",".","x","l","s","x">> :> File("xlsx") @@
    <<"/","c","w","d","/","n","o","e","x","t">> :> File("text") @@
    <<"/","c","w","d","/","N",".","T","X","T">> :> File("text") @@
    <<"/","c","w","d","/","n",".","l","o","g">> :> File("text2") @@
    <<"/","c","w","d","/","n",".","m","d">> :> File("text") @@
    <<"/","c","w","d","/","n",".","t","e","x","t">> :> File("empty") @@
    <<"/","c","w","d","/","o",".","x","l","s">> :> File("xlsx") @@
    <<"/","c","w","d","/","R",".","P","d","f">> :> File("pdf") @@
    <<"/","c","w","d","/",".","t","x","t">> :> File("text") @@
    <<"/","w","s","/","a",".","t","x","t">> :> File("text2") @@
    <<"/","e","n","v","/","a",".","t","x","t">> :> File("badutf8") @@
    <<"/","c","w","d","/","w","s","/","a",".","t","x","t">> :> File("empty") @@
    <<"/","a","b","s","/","a",".","t","x","t">> :> File("text") @@
    <<"/","c","w","d","/","s","u","b","/","a",".","t","x","t">> :> File("text2")

\* fs.access(path, R_OK) succeeds
Accessible(files, p) == p \in DOMAIN files /\ files[p].readable

\* fs.readFile(path) succeeds
Readable(files, p) == Accessible(files, p) /\ ~files[p].dir

BytesOf(files, p) == Contents[files[p].content].bytes

\* crypto.createHash("sha256").update(buffer).digest("hex"): the digest is
\* named by the bytes it is of (no two byte strings share a digest)
checksum(buffer) == [sha256 |-> buffer]

\* ---------------------------------------------------------------------
\* Loaders and the document summary (document-loader.mjs)
\* ---------------------------------------------------------------------

DEFAULT_PREVIEW_LIMIT == 6000

\* the tableSampleRows default of loadXlsx
DEFAULT_TABLE_SAMPLE_ROWS == 10000

TXT == <<"t","x","t">>

PDF == <<"p","d","f">>

DOCX == <<"d","o","c","x">>

DOC == <<"d","o","c">>

XLSX == <<"x","l","s","x">>

\* what a loader resolves to: type, text, tables (hasTables: the property is
\* set) and, for loadPdf, metadata.pageCount (0: undefined)
Parsed(type, txt, hasTables, tbls, pageCount) ==
    [type |-> type, text |-> txt, hasTables |-> hasTables, tables |-> tbls,
     pageCount |-> pageCount]

NoParsed == Parsed(<<>>, <<>>, FALSE, <<>>, 0)

\* truncate returning the value whatever its length
truncateKeepingAll(value, limit) == value

\* truncate(value, limit)
truncate(value, limit) ==
    IF value = <<>> THEN <<>>
    ELSE IF Len(value) <= limit THEN value
    ELSE SubSeq(value, 1, limit) \o <<"hellip">>

\* text.trim().split(/\s+/).filter(Boolean).length
RECURSIVE WordCount(_)
WordCount(s) ==
    LET rest == DropWhile(s, WhiteSpace)
    IN IF rest = <<>> THEN 0 ELSE 1 + WordCount(DropUntil(rest, WhiteSpace))

\* createDocumentSummary counting the separators of the text as its words
createDocumentSummaryCountingSeparators(doc, previewLimit) ==
    [charCount |-> Len(doc.text),
     wordCount |-> Cardinality({i \in 1..Len(doc.text) : doc.text[i] \in WhiteSpace}) + 1,
     tableCount |-> Len(doc.tables),
     preview |-> truncate(doc.text, previewLimit)]

\* createDocumentSummary(doc, previewLimit)
createDocumentSummary(doc, previewLimit) ==
    [charCount |-> Len(doc.text),
     wordCount |-> WordCount(doc.text),
     tableCount |-> Len(doc.tables),
     preview |-> truncate(doc.text, previewLimit)]

\* loadTxt: readText(filePath)
loadTxt(files, filePath) ==
    IF Readable(files, filePath)
    THEN Returned(Parsed(TXT, Utf8Decode(BytesOf(files, filePath)), FALSE, <<>>, 0))
    ELSE Threw("read failed")

\* loadPdf(readBinary(filePath)): pdf-parse rejects what is no PDF
loadPdf(files, filePath) ==
    LET c == Contents[files[filePath].content]
    IN IF ~Readable(files, filePath) THEN Threw("read failed")
       ELSE IF c.format # "pdf" THEN Threw("Invalid PDF structure")
       ELSE Returned(Parsed(PDF, Trim(c.extracted), FALSE, <<>>, c.numpages))

\* loadDocx returning the text without running the reconstructor
loadDocxWithoutTables(files, filePath) ==
    LET c == Contents[files[filePath].content]
    IN IF ~Readable(files, filePath) THEN Threw("read failed")
       ELSE IF c.format # "docx" THEN Threw("Could not find the body element")
       ELSE Returned(Parsed(DOCX, c.extracted, FALSE, <<>>, 0))

\* loadDocx: mammoth.extractRawText, then parseDocxTextToTables
loadDocx(files, filePath) ==
    LET c == Contents[files[filePath].content]
    IN IF ~Readable(files, filePath) THEN Threw("read failed")
       ELSE IF c.format # "docx" THEN Threw("Could not find the body element")
       ELSE Returned(Parsed(DOCX, c.extracted, TRUE,
                            parseDocxTextToTables(JsString(c.extracted)), 0))

\* loadDoc: word-extractor's body
loadDoc(files, filePath) ==
    LET c == Contents[files[filePath].content]
    IN IF ~Readable(files, filePath) THEN Threw("read failed")
       ELSE IF c.format # "doc" THEN Threw("Unable to read this type of file")
       ELSE Returned(Parsed(DOC, c.extracted, FALSE, <<>>, 0))

\* rows.slice(0, n) for n >= 0
SliceRows(sheetRows, n) == SubSeq(sheetRows, 1, IF n < Len(sheetRows) THEN n ELSE Len(sheetRows))

\* JSON.stringify(rows, null, 2) of a non-empty array; a row's own JSON is one
\* token here
RECURSIVE JsonRows(_)
JsonRows(sheetRows) ==
    IF Len(sheetRows) = 1 THEN <<" ", " ", sheetRows[1], "\n">>
    ELSE <<" ", " ", sheetRows[1], ",", "\n">> \o JsonRows(Tail(sheetRows))

JsonStringifyRows(sheetRows) == <<"[", "\n">> \o JsonRows(sheetRows) \o <<"]">>

\* the text loadXlsx builds for a sheet
SheetText(sheet) ==
    <<"S","h","e","e","t",":"," ">> \o sheet.name \o <<" ","(","r","o","w","s",":"," ">> \o NatToString(sheet.totalRows) \o <<")", "\n">>
    \o (IF sheet.sampleRows # <<>> THEN JsonStringifyRows(sheet.sampleRows) ELSE <<"(","e","m","p","t","y"," ","s","h","e","e","t",")">>)

RECURSIVE JoinSheetTexts(_)
JoinSheetTexts(sheets) ==
    IF sheets = <<>> THEN <<>>
    ELSE IF Len(sheets) = 1 THEN SheetText(sheets[1])
    ELSE SheetText(sheets[1]) \o <<"\n", "\n">> \o JoinSheetTexts(Tail(sheets))

\* loadXlsx(filePath, { tableSampleRows }): tableSampleRows is a number value
\* (>= 0) or undefined, which the parameter default replaces
loadXlsx(files, filePath, tableSampleRows) ==
    LET c == Contents[files[filePath].content]
        n == IF tableSampleRows.t = "undefined" THEN DEFAULT_TABLE_SAMPLE_ROWS
             ELSE tableSampleRows.v
        sheets == [i \in 1..Len(c.sheets) |->
                      [name |-> c.sheets[i].name,
                       totalRows |-> Len(c.sheets[i].rows),
                       sampleRows |-> SliceRows(c.sheets[i].rows, n)]]
    IN IF ~Readable(files, filePath) THEN Threw("read failed")
       ELSE IF c.format # "xlsx" THEN Threw("Unsupported file")
       ELSE Returned(Parsed(XLSX, JoinSheetTexts(sheets), TRUE, sheets, 0))

\* the loader loadDocuments picks for a type
loadByType(extType, files, filePath, tableSampleRows) ==
    CASE extType = TXT -> loadTxt(files, filePath)
      [] extType = PDF -> loadPdf(files, filePath)
      [] extType = DOCX -> loadDocx(files, filePath)
      [] extType = DOC -> loadDoc(files, filePath)
      [] extType = XLSX -> loadXlsx(files, filePath, tableSampleRows)

\* ---------------------------------------------------------------------
\* State
\* ---------------------------------------------------------------------

VARIABLES
    layout,       \* the parts a fixture-shaped text was made of (input)
    text,         \* parseDocxTextToTables: the argument
    lines,        \* its normalised non-empty lines
    scopedLines,  \* extractDocxRequestItems: the scan window
    cursor,       \* the loop cursor (0-based index into scopedLines)
    rows,         \* the item rows collected so far
    tables,       \* the tables pushed so far / returned
    rpc,          \* position: "call", "scan", "exit", "done"
    fileEntries,      \* loadDocuments: the first argument
    options,          \* the second argument
    envWorkspacePath, \* process.env.WORKSPACE_PATH
    fs,               \* the files, by absolute path
    fsLog,            \* the calls of node:fs and of the libraries on files, in order
    pc,               \* position: "idle", "entry", "access", "stat", "extract", "checksum", "done"
    workspaceRoot,    \* the constant workspaceRoot of the call
    idx,              \* the index of the entry the loop is at (1-based)
    cur,              \* the locals of the loop body
    documents,        \* the array documents
    warnings,         \* the array warnings
    outcome,          \* the promise: pending, returned { documents, warnings }, or threw
    earlier,          \* the caller: what the earlier calls of loadDocuments ended with
    stdin,            \* the command line tool: what it is given on stdin
    cli,              \* its position: "off", "start", "loading", "exited"
    stdout,           \* what it wrote with console.log
    stderr,           \* the lines it wrote with console.error
    exitCode,         \* the exit code of the process, null while it runs
    coral,            \* prepareCoralFlowData: its arguments, locals and position
    tool,             \* the structured extraction tool: the locals of main
    llmEnv            \* the environment variables that are set and not empty

reconVars == <<layout, text, lines, scopedLines, cursor, rows, tables, rpc>>

loaderVars == <<fileEntries, options, envWorkspacePath, fs, fsLog, pc, workspaceRoot, idx, cur,
                documents, warnings, outcome>>

cliVars == <<stdin, cli, stdout, stderr, exitCode>>

structVars == <<tool, llmEnv>>

callerVars == <<earlier, cliVars, coral, structVars>>

vars == <<reconVars, loaderVars, callerVars>>

\* the bound of the batches' length
MaxBatch == 2

\* a descriptor object { path, label, type }; an absent property is undefined
JsObject(p, l, ty) == [t |-> "object", v |-> [path |-> p, label |-> l, type |-> ty]]

JsArray(items) == [t |-> "array", v |-> items]

\* Date.prototype.toISOString: the instant, as its ISO text
toISOString(instant) == [iso |-> instant]

NoLocals ==
    [resolvedPath |-> <<>>, label |-> JsNull, explicitType |-> JsNull,
     stats |-> [size |-> 0, modified |-> toISOString(0), created |-> toISOString(0)],
     extType |-> <<>>, parsed |-> NoParsed]

Pending == [state |-> "pending", message |-> ""]

NoOptions == [workspaceRoot |-> JsUndefined, tableSampleRows |-> JsUndefined,
              previewLimit |-> JsUndefined]

LoaderIdle ==
    /\ fileEntries = JsArray(<<>>) /\ options = NoOptions /\ envWorkspacePath = JsUndefined
    /\ fs = Disk /\ fsLog = <<>> /\ pc = "idle" /\ idx = 0 /\ workspaceRoot = JsUndefined
    /\ cur = NoLocals /\ documents = <<>> /\ warnings = <<>> /\ outcome = Pending

ReconIdle ==
    /\ lines = <<>> /\ scopedLines = <<>> /\ cursor = 0 /\ rows = <<>>
    /\ tables = <<>> /\ rpc = "call"

NoLayout == [fixture |-> FALSE, present |-> {}, items |-> <<>>]

\* what stdin holds: nothing, white space only, a text that is no JSON, or the
\* text of a JSON value
NoStdin == [raw |-> "empty", json |-> JsUndefined]

BlankStdin == [raw |-> "blank", json |-> JsUndefined]

InvalidStdin == [raw |-> "invalid", json |-> JsUndefined]

JsonStdin(value) == [raw |-> "json", json |-> value]

\* prepareCoralFlowData is not running
CoralOff ==
    [pc |-> "off", json |-> JsUndefined, docs |-> <<>>, documentNames |-> <<>>,
     job |-> JsUndefined, index |-> 0, materials |-> <<>>, warnings |-> <<>>,
     operations |-> <<>>, returned |-> FALSE]

\* the locals of main before loadDocuments is called
NoTool ==
    [profile |-> JsNull, includeRaw |-> FALSE, prompt |-> JsNull, mode |-> "extract",
     execution |-> [status |-> "none", llm |-> [used |-> FALSE, provider |-> JsNull, error |-> ""],
                    data |-> JsNull, warnings |-> <<>>, profile |-> JsNull]]

CallerIdle ==
    /\ earlier = <<>>
    /\ stdin = NoStdin /\ cli = "off" /\ stdout = <<>> /\ stderr = <<>> /\ exitCode = JsNull
    /\ coral = CoralOff
    /\ tool = NoTool /\ llmEnv = {}

\* ---------------------------------------------------------------------
\* Inputs of the reconstructor
\* ---------------------------------------------------------------------

RECURSIVE SeqsUpTo(_, _)
SeqsUpTo(S, n) ==
    IF n = 0 THEN {<<>>}
    ELSE LET shorter == SeqsUpTo(S, n - 1)
         IN shorter \cup {Append(q, e) : q \in {r \in shorter : Len(r) = n - 1}, e \in S}

\* every text of at most MaxLines raw lines, the longer texts, and the values
\* that are not strings
ParseInputs ==
    {JsString(JoinLines([i \in 1..Len(q) |-> RawLines[q[i]]])) :
        q \in SeqsUpTo(1..Len(RawLines), MaxLines) \ {<<>>}}
    \cup {JsString(JoinLines(q)) : q \in WindowTexts}
    \cup {JsString(<<>>), JsNull, JsUndefined, JsNumber(0), JsNumber(7)}

\* ---------------------------------------------------------------------
\* parseDocxTextToTables as a state machine: one step per loop iteration
\* ---------------------------------------------------------------------

\* entry of parseDocxTextToTables up to the cursor loop: the lines, the early
\* return for no lines, the header table, the scan window
ParseStart ==
    /\ rpc = "call"
    /\ LET ls == NormalisedLines(text)
           headerRow == extractDocxRequestHeader(ls)
       IN /\ lines' = ls
          /\ IF ls = <<>>
             THEN /\ rpc' = "done"
                  /\ UNCHANGED <<scopedLines, tables>>
             ELSE /\ rpc' = "scan"
                  /\ tables' = IF headerRow.present THEN <<HeaderTable(headerRow.row)>>
                               ELSE <<>>
                  /\ scopedLines' = scopedLinesOf(ls)
    /\ UNCHANGED <<layout, text, cursor, rows>>
    /\ UNCHANGED <<loaderVars, callerVars>>

\* one iteration of the cursor loop that ends in continue or at the loop's end
ScanStep ==
    /\ rpc = "scan"
    /\ ScanContinues(scopedLines, cursor, rows)
    /\ LET it == ScanIteration(scopedLines, cursor, rows)
       IN /\ ~it.brk
          /\ cursor' = it.cursor
          /\ rows' = it.rows
    /\ UNCHANGED <<layout, text, lines, scopedLines, tables, rpc>>
    /\ UNCHANGED <<loaderVars, callerVars>>

\* one iteration of the cursor loop that ends in break
ScanBreak ==
    /\ rpc = "scan"
    /\ ScanContinues(scopedLines, cursor, rows)
    /\ ScanIteration(scopedLines, cursor, rows).brk
    /\ rpc' = "exit"
    /\ UNCHANGED <<layout, text, lines, scopedLines, cursor, rows, tables>>
    /\ UNCHANGED <<loaderVars, callerVars>>

\* the loop condition fails
ScanExit ==
    /\ rpc = "scan"
    /\ ~ScanContinues(scopedLines, cursor, rows)
    /\ rpc' = "exit"
    /\ UNCHANGED <<layout, text, lines, scopedLines, cursor, rows, tables>>
    /\ UNCHANGED <<loaderVars, callerVars>>

\* ParseFinish putting the items table in front
ParseFinishItemsFirst ==
    /\ rpc = "exit"
    /\ tables' = IF rows # <<>> THEN <<ItemsTable(rows)>> \o tables ELSE tables
    /\ rpc' = "done"
    /\ UNCHANGED <<layout, text, lines, scopedLines, cursor, rows>>
    /\ UNCHANGED <<loaderVars, callerVars>>

\* after extractDocxRequestItems: the items table, the return
ParseFinish ==
    /\ rpc = "exit"
    /\ tables' = IF rows # <<>> THEN Append(tables, ItemsTable(rows)) ELSE tables
    /\ rpc' = "done"
    /\ UNCHANGED <<layout, text, lines, scopedLines, cursor, rows>>
    /\ UNCHANGED <<loaderVars, callerVars>>

ParseNext == ParseStart \/ ScanStep \/ ScanBreak \/ ScanExit \/ ParseFinish

\* ---------------------------------------------------------------------
\* Texts laid out like the request-form fixture
\* ---------------------------------------------------------------------

\* the label and value lines of the header fields of the set present
RECURSIVE FixtureHeaderLines(_, _)
FixtureHeaderLines(present, i) ==
    IF i > Len(FixtureHeader) THEN <<>>
    ELSE (IF FixtureHeader[i].field \in present
          THEN <<FixtureHeader[i].label, FixtureHeader[i].value>>
          ELSE <<>>) \o FixtureHeaderLines(present, i + 1)

\* the triples row number, description, quantity of the items, in order
RECURSIVE FixtureItemLines(_, _)
FixtureItemLines(items, i) ==
    IF i > Len(items) THEN <<>>
    ELSE <<FixtureNumbers[i], items[i].description, items[i].quantity>>
         \o FixtureItemLines(items, i + 1)

FixtureText(present, items) ==
    JsString(JoinLines(FixtureHeaderLines(present, 1) \o FixtureHeadings
                       \o FixtureItemLines(items, 1) \o FixtureFooter))

FixtureItems == [description : FixtureDescriptions, quantity : FixtureQuantities]

FixtureLayouts ==
    {[fixture |-> TRUE, present |-> p, items |-> q] :
        p \in (SUBSET HeaderFieldSet) \ {{}},
        q \in SeqsUpTo(FixtureItems, MaxItems) \ {<<>>}}

\* a call on a text of the fixture's layout, or on any of the other inputs
ParseInit ==
    /\ layout \in FixtureLayouts \cup {NoLayout}
    /\ text \in IF layout.fixture
                THEN {FixtureText(layout.present, layout.items)}
                ELSE ParseInputs
    /\ ReconIdle
    /\ LoaderIdle
    /\ CallerIdle

SpecParse == ParseInit /\ [][ParseNext]_vars

\* the raw lines the item scan tells apart: the start-of-items marker, a row
\* number, a description, a quantity, a line without a number, a separator,
\* an end-of-section marker
ScanLines == SubSeq(RawLines, 5, Len(RawLines))

\* every text of at most MaxLines of these lines, the longer texts, the empty
\* text
ScanInputs ==
    {JsString(JoinLines(q)) : q \in SeqsUpTo({ScanLines[i] : i \in 1..Len(ScanLines)}, MaxLines) \ {<<>>}}
    \cup {JsString(JoinLines(q)) : q \in WindowTexts}
    \cup {JsString(<<>>)}

\* a call on one of these texts
ScanInit ==
    /\ layout = NoLayout
    /\ text \in ScanInputs
    /\ ReconIdle
    /\ LoaderIdle
    /\ CallerIdle

SpecScan == ScanInit /\ [][ParseNext]_vars

\* ---------------------------------------------------------------------
\* loadDocuments as a state machine: one step per await
\* ---------------------------------------------------------------------

\* String(x) of the values entries are made of
JsToString(x) ==
    CASE x.t = "string" -> x.v
      [] x.t = "number" -> NatToString(x.v)
      [] x.t = "null" -> <<"n","u","l","l">>
      [] x.t = "undefined" -> <<"u","n","d","e","f","i","n","e","d">>
      [] OTHER -> <<"[","o","b","j","e","c","t"," ","O","b","j","e","c","t","]">>

\* a || b
JsOr(a, b) == IF Truthy(a) THEN a ELSE b

\* a destructuring default: the property, or d when it is undefined
JsDefault(a, d) == IF a.t = "undefined" THEN d ELSE a

\* readFileStats(filePath), for a path fs.stat succeeds on
readFileStats(files, filePath) ==
    [size |-> IF files[filePath].dir THEN 0 ELSE Len(Contents[files[filePath].content].bytes),
     modified |-> toISOString(files[filePath].mtime),
     created |-> toISOString(files[filePath].ctime)]

\* a thrown error as a warning's detail
ErrorDetail(m) == [t |-> "error", v |-> m]

\* a warning; path is the path its message ends with, if any
Warning(message, path, detail) == [message |-> message, path |-> path, detail |-> detail]

\* the object pushed to documents with the metadata of the loader added
DocumentCarryingMetadata(locals, parsed, binary, previewLimit) ==
    [path |-> locals.resolvedPath,
     label |-> locals.label,
     type |-> parsed.type,
     text |-> parsed.text,
     tables |-> IF parsed.hasTables THEN parsed.tables ELSE <<>>,
     checksum |-> checksum(binary),
     stats |-> locals.stats,
     summary |-> createDocumentSummary(parsed, previewLimit),
     metadata |-> [pageCount |-> parsed.pageCount]]

\* the object pushed to documents
Document(locals, parsed, binary, previewLimit) ==
    [path |-> locals.resolvedPath,
     label |-> locals.label,
     type |-> parsed.type,
     text |-> parsed.text,
     tables |-> IF parsed.hasTables THEN parsed.tables ELSE <<>>,
     checksum |-> checksum(binary),
     stats |-> locals.stats,
     summary |-> createDocumentSummary(parsed, previewLimit)]

Rejected(m) == [state |-> "threw", message |-> m]

Resolved == [state |-> "returned", message |-> ""]

\* previewLimit of loadDocuments
previewLimitOf(opts) ==
    IF Truthy(opts.previewLimit) THEN opts.previewLimit.v ELSE DEFAULT_PREVIEW_LIMIT

\* Call rejecting what is no array only
CallArrayOnly ==
    /\ pc = "idle"
    /\ IF fileEntries.t # "array"
       THEN /\ outcome' = Rejected("Input must include at least one document.")
            /\ pc' = "done"
            /\ UNCHANGED <<workspaceRoot, idx>>
       ELSE /\ workspaceRoot' = JsOr(options.workspaceRoot, JsOr(envWorkspacePath, JsString(Cwd)))
            /\ idx' = 1
            /\ pc' = "entry"
            /\ UNCHANGED outcome
    /\ UNCHANGED <<fileEntries, options, envWorkspacePath, fs, fsLog, cur, documents, warnings>>
    /\ UNCHANGED <<reconVars, callerVars>>

\* Call preferring WORKSPACE_PATH to options.workspaceRoot
CallEnvFirst ==
    /\ pc = "idle"
    /\ IF fileEntries.t # "array" \/ fileEntries.v = <<>>
       THEN /\ outcome' = Rejected("Input must include at least one document.")
            /\ pc' = "done"
            /\ UNCHANGED <<workspaceRoot, idx>>
       ELSE /\ workspaceRoot' = JsOr(envWorkspacePath, JsOr(options.workspaceRoot, JsString(Cwd)))
            /\ idx' = 1
            /\ pc' = "entry"
            /\ UNCHANGED outcome
    /\ UNCHANGED <<fileEntries, options, envWorkspacePath, fs, fsLog, cur, documents, warnings>>
    /\ UNCHANGED <<reconVars, callerVars>>

\* the entry checks and the constants of the call
Call ==
    /\ pc = "idle"
    /\ IF fileEntries.t # "array" \/ fileEntries.v = <<>>
       THEN /\ outcome' = Rejected("Input must include at least one document.")
            /\ pc' = "done"
            /\ UNCHANGED <<workspaceRoot, idx>>
       ELSE /\ workspaceRoot' = JsOr(options.workspaceRoot, JsOr(envWorkspacePath, JsString(Cwd)))
            /\ idx' = 1
            /\ pc' = "entry"
            /\ UNCHANGED outcome
    /\ UNCHANGED <<fileEntries, options, envWorkspacePath, fs, fsLog, cur, documents, warnings>>
    /\ UNCHANGED <<reconVars, callerVars>>

\* the head of the loop body: the descriptor checks and the path resolution
Descriptor ==
    /\ pc = "entry"
    /\ idx <= Len(fileEntries.v)
    /\ LET entry == fileEntries.v[idx]
           descriptor == IF entry.t = "string"
                         THEN JsObject(entry, JsUndefined, JsUndefined)
                         ELSE entry
           rawPath == descriptor.v.path
           resolved == resolveWorkspacePath(rawPath, workspaceRoot)
       IN IF ~Truthy(descriptor) \/ descriptor.t # "object"
          THEN /\ warnings' = Append(warnings,
                      Warning("Skipping invalid document descriptor", <<>>,
                              JsString(JsToString(entry))))
               /\ idx' = idx + 1
               /\ UNCHANGED <<pc, cur, outcome>>
          ELSE IF ~Truthy(rawPath) \/ rawPath.t # "string"
          THEN /\ warnings' = Append(warnings,
                      Warning("Skipping document with missing path", <<>>, descriptor))
               /\ idx' = idx + 1
               /\ UNCHANGED <<pc, cur, outcome>>
          ELSE IF resolved.threw
          THEN /\ outcome' = Rejected(resolved.message)
               /\ pc' = "done"
               /\ UNCHANGED <<idx, cur, warnings>>
          ELSE /\ cur' = [NoLocals EXCEPT
                             !.resolvedPath = resolved.value,
                             !.label = JsDefault(descriptor.v.label, JsNull),
                             !.explicitType = JsDefault(descriptor.v.type, JsNull)]
               /\ pc' = "access"
               /\ UNCHANGED <<idx, warnings, outcome>>
    /\ UNCHANGED <<fileEntries, options, envWorkspacePath, fs, fsLog, workspaceRoot, documents>>
    /\ UNCHANGED <<reconVars, callerVars>>

\* assertFileReadable skipping the entry without a warning when it fails
AccessSilent ==
    /\ pc = "access"
    /\ fsLog' = Append(fsLog, [op |-> "access", path |-> cur.resolvedPath])
    /\ IF Accessible(fs, cur.resolvedPath)
       THEN /\ pc' = "stat"
            /\ UNCHANGED <<idx, warnings>>
       ELSE /\ idx' = idx + 1
            /\ pc' = "entry"
            /\ UNCHANGED warnings
    /\ UNCHANGED <<fileEntries, options, envWorkspacePath, fs, workspaceRoot, cur, documents, outcome>>
    /\ UNCHANGED <<reconVars, callerVars>>

\* Access pushing no warning that is already in the list
AccessDeduplicating ==
    /\ pc = "access"
    /\ fsLog' = Append(fsLog, [op |-> "access", path |-> cur.resolvedPath])
    /\ IF Accessible(fs, cur.resolvedPath)
       THEN /\ pc' = "stat"
            /\ UNCHANGED <<idx, warnings>>
       ELSE /\ warnings' =
                 IF \E k \in 1..Len(warnings) : warnings[k].path = cur.resolvedPath
                 THEN warnings
                 ELSE Append(warnings,
                             Warning("Unable to access", cur.resolvedPath,
                                     ErrorDetail("Cannot read file")))
            /\ idx' = idx + 1
            /\ pc' = "entry"
    /\ UNCHANGED <<fileEntries, options, envWorkspacePath, fs, workspaceRoot, cur, documents, outcome>>
    /\ UNCHANGED <<reconVars, callerVars>>

\* await assertFileReadable(resolvedPath)
Access ==
    /\ pc = "access"
    /\ fsLog' = Append(fsLog, [op |-> "access", path |-> cur.resolvedPath])
    /\ IF Accessible(fs, cur.resolvedPath)
       THEN /\ pc' = "stat"
            /\ UNCHANGED <<idx, warnings>>
       ELSE /\ warnings' = Append(warnings,
                      Warning("Unable to access", cur.resolvedPath,
                              ErrorDetail("Cannot read file")))
            /\ idx' = idx + 1
            /\ pc' = "entry"
    /\ UNCHANGED <<fileEntries, options, envWorkspacePath, fs, workspaceRoot, cur, documents, outcome>>
    /\ UNCHANGED <<reconVars, callerVars>>

\* Stat rejecting the call for a type that is not supported
StatFatal ==
    /\ pc = "stat"
    /\ fsLog' = Append(fsLog, [op |-> "stat", path |-> cur.resolvedPath])
    /\ LET extType == normaliseType(cur.explicitType, cur.resolvedPath)
       IN IF ~Truthy(extType)
          THEN /\ outcome' = Rejected("Unsupported file type")
               /\ pc' = "done"
               /\ UNCHANGED <<cur, idx, warnings>>
          ELSE /\ cur' = [cur EXCEPT !.stats = readFileStats(fs, cur.resolvedPath),
                                     !.extType = extType.v]
               /\ pc' = "extract"
               /\ UNCHANGED <<idx, warnings, outcome>>
    /\ UNCHANGED <<fileEntries, options, envWorkspacePath, fs, workspaceRoot, documents>>
    /\ UNCHANGED <<reconVars, callerVars>>

\* await readFileStats(resolvedPath), then normaliseType
Stat ==
    /\ pc = "stat"
    /\ fsLog' = Append(fsLog, [op |-> "stat", path |-> cur.resolvedPath])
    /\ LET extType == normaliseType(cur.explicitType, cur.resolvedPath)
       IN IF cur.resolvedPath \notin DOMAIN fs
          THEN /\ warnings' = Append(warnings,
                      Warning("Unable to access", cur.resolvedPath, ErrorDetail("ENOENT")))
               /\ idx' = idx + 1
               /\ pc' = "entry"
               /\ UNCHANGED cur
          ELSE IF ~Truthy(extType)
          THEN /\ warnings' = Append(warnings,
                      Warning("Unsupported file type", <<>>, JsString(cur.resolvedPath)))
               /\ idx' = idx + 1
               /\ pc' = "entry"
               /\ UNCHANGED cur
          ELSE /\ cur' = [cur EXCEPT !.stats = readFileStats(fs, cur.resolvedPath),
                                     !.extType = extType.v]
               /\ pc' = "extract"
               /\ UNCHANGED <<idx, warnings>>
    /\ UNCHANGED <<fileEntries, options, envWorkspacePath, fs, workspaceRoot, documents, outcome>>
    /\ UNCHANGED <<reconVars, callerVars>>

\* the bytes hashed whatever the type: the file's
binaryOfFileBytes(extType, parsed, fileBytes) == fileBytes

\* buffer || (extType === "txt" ? Buffer.from(parsed.text ?? "", "utf8")
\*                               : await readBinary(resolvedPath));
\* fileBytes is what readBinary gave, before or here
binaryOf(extType, parsed, fileBytes) ==
    IF extType = TXT THEN Utf8Encode(parsed.text) ELSE fileBytes

\* the read of the file the loader of a type makes (readBinary for pdf)
ReadsOf(extType, path) == <<[op |-> "read", path |-> path]>>

\* what follows the loaders when the bytes of a pdf are read again for its
\* checksum, as those of docx, xlsx and doc are
ExtractOutcomeRereadingPdf(r) ==
    IF r.threw
    THEN /\ warnings' = Append(warnings,
                Warning("Failed to parse", cur.resolvedPath, ErrorDetail(r.message)))
         /\ idx' = idx + 1
         /\ pc' = "entry"
         /\ UNCHANGED <<cur, documents>>
    ELSE IF cur.extType \in {DOCX, XLSX, DOC, PDF}
    THEN /\ cur' = [cur EXCEPT !.parsed = r.value]
         /\ pc' = "checksum"
         /\ UNCHANGED <<idx, documents, warnings>>
    ELSE /\ documents' = Append(documents,
                Document(cur, r.value,
                         binaryOf(cur.extType, r.value, BytesOf(fs, cur.resolvedPath)),
                         previewLimitOf(options)))
         /\ idx' = idx + 1
         /\ pc' = "entry"
         /\ UNCHANGED <<cur, warnings>>

\* what follows the loaders, for their outcome r: the warning of the inner
\* catch, or the parsed document kept for the checksum, or the document
ExtractOutcome(r) ==
    IF r.threw
    THEN /\ warnings' = Append(warnings,
                Warning("Failed to parse", cur.resolvedPath, ErrorDetail(r.message)))
         /\ idx' = idx + 1
         /\ pc' = "entry"
         /\ UNCHANGED <<cur, documents>>
    ELSE IF cur.extType \in {DOCX, XLSX, DOC}
    THEN /\ cur' = [cur EXCEPT !.parsed = r.value]
         /\ pc' = "checksum"
         /\ UNCHANGED <<idx, documents, warnings>>
    ELSE /\ documents' = Append(documents,
                Document(cur, r.value,
                         binaryOf(cur.extType, r.value, BytesOf(fs, cur.resolvedPath)),
                         previewLimitOf(options)))
         /\ idx' = idx + 1
         /\ pc' = "entry"
         /\ UNCHANGED <<cur, warnings>>

\* the inner try: the loader of the type (and readBinary for pdf, whose bytes
\* the loader is handed); txt and pdf documents are pushed without a further
\* read of the file
Extract ==
    /\ pc = "extract"
    /\ fsLog' = fsLog \o ReadsOf(cur.extType, cur.resolvedPath)
    /\ ExtractOutcome(loadByType(cur.extType, fs, cur.resolvedPath, options.tableSampleRows))
    /\ UNCHANGED <<fileEntries, options, envWorkspacePath, fs, workspaceRoot, outcome>>
    /\ UNCHANGED <<reconVars, callerVars>>

\* the warning of a readBinary that fails after the loader: doc reads inside
\* the inner try, docx and xlsx after it
ReadFailure(extType, path) ==
    IF extType = DOC
    THEN Warning("Failed to parse", path, ErrorDetail("read failed"))
    ELSE Warning("Unable to access", path, ErrorDetail("read failed"))

\* docx, xlsx and doc: await readBinary(resolvedPath), a second read of the
\* file after the loader's, then the document
Checksum ==
    /\ pc = "checksum"
    /\ fsLog' = Append(fsLog, [op |-> "read", path |-> cur.resolvedPath])
    /\ IF Readable(fs, cur.resolvedPath)
       THEN /\ documents' = Append(documents,
                      Document(cur, cur.parsed,
                               binaryOf(cur.extType, cur.parsed, BytesOf(fs, cur.resolvedPath)),
                               previewLimitOf(options)))
            /\ UNCHANGED warnings
       ELSE /\ warnings' = Append(warnings, ReadFailure(cur.extType, cur.resolvedPath))
            /\ UNCHANGED documents
    /\ idx' = idx + 1
    /\ pc' = "entry"
    /\ UNCHANGED <<fileEntries, options, envWorkspacePath, fs, workspaceRoot, cur, outcome>>
    /\ UNCHANGED <<reconVars, callerVars>>

\* the end of the loop returning whatever was collected
FinishAlwaysReturns ==
    /\ pc = "entry"
    /\ idx > Len(fileEntries.v)
    /\ outcome' = Resolved
    /\ pc' = "done"
    /\ UNCHANGED <<fileEntries, options, envWorkspacePath, fs, fsLog, workspaceRoot, idx, cur,
                   documents, warnings>>
    /\ UNCHANGED <<reconVars, callerVars>>

\* after the loop: the error for no documents, or the return
Finish ==
    /\ pc = "entry"
    /\ idx > Len(fileEntries.v)
    /\ outcome' = IF documents = <<>>
                  THEN Rejected("No readable documents were provided.")
                  ELSE Resolved
    /\ pc' = "done"
    /\ UNCHANGED <<fileEntries, options, envWorkspacePath, fs, fsLog, workspaceRoot, idx, cur,
                   documents, warnings>>
    /\ UNCHANGED <<reconVars, callerVars>>

\* the return value handing over the documents only
ReturnValueWithoutWarnings(out, docs, ws) ==
    IF out.state = "returned"
    THEN [error |-> "", documents |-> docs, warnings |-> <<>>]
    ELSE [error |-> out.message, documents |-> <<>>, warnings |-> <<>>]

\* what the caller of loadDocuments is handed when the promise settles:
\* { documents, warnings } on return, an Error with its message on a throw
ReturnValue(out, docs, ws) ==
    IF out.state = "returned"
    THEN [error |-> "", documents |-> docs, warnings |-> ws]
    ELSE [error |-> out.message, documents |-> <<>>, warnings |-> <<>>]

Next == Call \/ Descriptor \/ Access \/ Stat \/ Extract \/ Checksum \/ Finish

\* ---------------------------------------------------------------------
\* Calls of loadDocuments
\* ---------------------------------------------------------------------

\* the state at the call, for given arguments and environment
CallOf(entries, opts, env) ==
    /\ fileEntries = entries /\ options = opts /\ envWorkspacePath = env
    /\ fs = Disk /\ fsLog = <<>> /\ pc = "idle" /\ idx = 0 /\ workspaceRoot = JsUndefined
    /\ cur = NoLocals /\ documents = <<>> /\ warnings = <<>> /\ outcome = Pending
    /\ text = JsString(<<>>) /\ layout = NoLayout /\ ReconIdle
    /\ CallerIdle

\* entries of a batch: paths of files that load, of files that do not, and
\* descriptors that are none
Entries ==
    {JsString(<<"a",".","t","x","t">>), JsString(<<"b",".","t","x","t">>), JsString(<<"b","a","d",".","t","x","t">>), JsString(<<"m","i","s","s","i","n","g",".","t","x","t">>),
     JsString(<<"d","i","r",".","t","x","t">>), JsString(<<"l","o","c","k","e","d",".","t","x","t">>), JsString(<<"x",".","c","s","v">>), JsString(<<"r",".","p","d","f">>),
     JsString(<<"f",".","d","o","c","x">>), JsString(<<"w",".","d","o","c">>), JsString(<<"s",".","x","l","s","x">>),
     JsNull, JsNumber(7), JsString(<<>>),
     JsObject(JsUndefined, JsString(<<"L">>), JsUndefined),
     JsObject(JsString(<<"a",".","t","x","t">>), JsString(<<"L">>), JsString(<<"p","d","f">>))}

Batches == {JsArray(q) : q \in SeqsUpTo(Entries, MaxBatch)}

NotArrays == {JsNull, JsUndefined, JsString(<<"a",".","t","x","t">>), JsObject(JsString(<<"a",".","t","x","t">>), JsUndefined, JsUndefined)}

OptionSets ==
    {NoOptions,
     [workspaceRoot |-> JsUndefined, tableSampleRows |-> JsNumber(1), previewLimit |-> JsNumber(3)]}

Init ==
    \E entries \in Batches \cup NotArrays, opts \in OptionSets :
        CallOf(entries, opts, JsUndefined)

Spec == Init /\ [][Next]_vars

\* one-entry batches over type hints and paths
TypeHints ==
    {JsUndefined, JsNull, JsString(<<>>), JsNumber(7), JsString(<<"p","d","f">>), JsString(<<"P","D","F">>),
     JsString(<<"T","x","t">>), JsString(<<"d","o","c","x">>), JsString(<<"d","o","c">>), JsString(<<"X","L","S","X">>), JsString(<<"c","s","v">>),
     JsString(<<"t","e","x","t">>), JsString(<<"s","p","r","e","a","d","s","h","e","e","t">>)}

TypePaths ==
    {<<"a",".","t","x","t">>, <<"N",".","T","X","T">>, <<"n",".","l","o","g">>, <<"n",".","m","d">>, <<"n",".","t","e","x","t">>, <<"r",".","p","d","f">>, <<"R",".","P","d","f">>, <<"f",".","d","o","c","x">>, <<"w",".","d","o","c">>,
     <<"s",".","x","l","s","x">>, <<"o",".","x","l","s">>, <<"x",".","c","s","v">>, <<"n","o","e","x","t">>, <<".","t","x","t">>}

TypeInit ==
    \E hint \in TypeHints, p \in TypePaths :
        CallOf(JsArray(<<JsObject(JsString(p), JsUndefined, hint)>>), NoOptions, JsUndefined)

SpecType == TypeInit /\ [][Next]_vars

\* one-entry batches over paths, workspace roots and WORKSPACE_PATH values
InputPaths ==
    {<<"/","a","b","s","/","a",".","t","x","t">>, <<"/","a","b","s","/","a",".","t","x","t"," ">>, <<"/","a","b","s","/",".",".","/","a","b","s","/","a",".","t","x","t">>, <<"a",".","t","x","t">>, <<" ","a",".","t","x","t">>, <<".",".","/","w","s","/","a",".","t","x","t">>, <<"s","u","b","\\","a",".","t","x","t">>,
     <<"/","a","b","s","\\","a",".","t","x","t">>, <<"f",".","d","o","c","x">>, <<"m","i","s","s","i","n","g",".","t","x","t">>}

ExplicitRoots == {JsUndefined, JsString(<<>>), JsString(<<" ", " ">>), JsString(<<"/","w","s">>), JsString(<<"w","s">>), JsString(<<" ","/","w","s"," ">>)}

EnvRoots == {JsUndefined, JsString(<<>>), JsString(<<"/","e","n","v">>), JsString(<<" ">>)}

PathInit ==
    \E p \in InputPaths, root \in ExplicitRoots, env \in EnvRoots :
        CallOf(JsArray(<<JsString(p)>>), [NoOptions EXCEPT !.workspaceRoot = root], env)

SpecPath == PathInit /\ [][Next]_vars

\* one-entry batches over files of several lengths and preview limits
PreviewPaths == {<<"a",".","t","x","t">>, <<"b",".","t","x","t">>, <<"n",".","t","e","x","t">>, <<"r",".","p","d","f">>, <<"w",".","d","o","c">>, <<"s",".","x","l","s","x">>}

PreviewLimits ==
    {JsUndefined, JsNumber(0), JsNumber(1), JsNumber(2), JsNumber(3), JsNumber(5), JsNumber(6)}

PreviewInit ==
    \E p \in PreviewPaths, limit \in PreviewLimits :
        CallOf(JsArray(<<JsString(p)>>), [NoOptions EXCEPT !.previewLimit = limit], JsUndefined)

SpecPreview == PreviewInit /\ [][Next]_vars

\* calls on files of every type, with and without a cap on the sample rows
TableEntries ==
    {JsString(<<"a",".","t","x","t">>), JsString(<<"r",".","p","d","f">>), JsString(<<"f",".","d","o","c","x">>), JsString(<<"g",".","d","o","c","x">>),
     JsString(<<"w",".","d","o","c">>), JsString(<<"s",".","x","l","s","x">>)}

TableSampleRows == {JsUndefined, JsNumber(1), JsNumber(2)}

TablesInit ==
    \E q \in SeqsUpTo(TableEntries, MaxBatch) \ {<<>>}, n \in TableSampleRows :
        CallOf(JsArray(q), [NoOptions EXCEPT !.tableSampleRows = n], JsUndefined)

SpecTables == TablesInit /\ [][Next]_vars

\* longest batch of the calls that show the order of the results
MaxOrderBatch == 3

\* their entries: two files that load, a spreadsheet, a file that is missing,
\* a file of a type that is not supported, an entry that is no descriptor, a
\* descriptor without a path
OrderEntries ==
    {JsString(<<"a",".","t","x","t">>), JsString(<<"b",".","t","x","t">>), JsString(<<"s",".","x","l","s","x">>),
     JsString(<<"m","i","s","s","i","n","g",".","t","x","t">>), JsString(<<"x",".","c","s","v">>), JsNull,
     JsObject(JsUndefined, JsString(<<"L">>), JsUndefined)}

OrderInit ==
    \E q \in SeqsUpTo(OrderEntries, MaxOrderBatch) \ {<<>>} :
        CallOf(JsArray(q), NoOptions, JsUndefined)

SpecOrder == OrderInit /\ [][Next]_vars

\* batches over descriptors whose path is missing, empty or white space only
BlankEntries ==
    {JsString(<<>>), JsString(<<" "," "," ">>), JsString(<<"\t">>), JsString(<<"a",".","t","x","t">>), JsString(<<"s",".","x","l","s","x">>),
     JsObject(JsUndefined, JsString(<<"L">>), JsUndefined),
     JsObject(JsNull, JsUndefined, JsUndefined),
     JsObject(JsNumber(7), JsUndefined, JsUndefined),
     JsObject(JsString(<<>>), JsUndefined, JsUndefined),
     JsObject(JsString(<<" "," ">>), JsUndefined, JsString(<<"t","x","t">>)),
     JsObject(JsString(<<" ","\n">>), JsString(<<"L">>), JsUndefined)}

BlankInit ==
    \E q \in SeqsUpTo(BlankEntries, MaxBatch) :
        CallOf(JsArray(q), NoOptions, JsUndefined)

SpecBlank == BlankInit /\ [][Next]_vars

\* ---------------------------------------------------------------------
\* A caller that calls loadDocuments again, files being written in between
\* ---------------------------------------------------------------------

\* the bound of the number of calls after the first
MaxRepeats == 1

\* the bound of the number of times a file is written
MaxWrites == 1

\* the second call finding the documents of the first in its array
CallAgainKeepingDocuments ==
    /\ pc = "done"
    /\ Len(earlier) < MaxRepeats
    /\ earlier' = Append(earlier, [outcome |-> outcome, documents |-> documents,
                                  warnings |-> warnings, fs |-> fs])
    /\ pc' = "idle"
    /\ idx' = 0
    /\ workspaceRoot' = JsUndefined
    /\ cur' = NoLocals
    /\ warnings' = <<>>
    /\ outcome' = Pending
    /\ UNCHANGED <<fileEntries, options, envWorkspacePath, fs, fsLog, documents>>
    /\ UNCHANGED <<reconVars, cliVars, coral, structVars>>

\* the caller has the result of a call and calls loadDocuments again with the
\* same arguments: a new promise, new documents and warnings arrays, new locals
CallAgain ==
    /\ pc = "done"
    /\ Len(earlier) < MaxRepeats
    /\ earlier' = Append(earlier, [outcome |-> outcome, documents |-> documents,
                                  warnings |-> warnings, fs |-> fs])
    /\ pc' = "idle"
    /\ idx' = 0
    /\ workspaceRoot' = JsUndefined
    /\ cur' = NoLocals
    /\ documents' = <<>>
    /\ warnings' = <<>>
    /\ outcome' = Pending
    /\ UNCHANGED <<fileEntries, options, envWorkspacePath, fs, fsLog>>
    /\ UNCHANGED <<reconVars, cliVars, coral, structVars>>

\* the files written between two calls
RewritePaths == {<<"/","c","w","d","/","a",".","t","x","t">>, <<"/","c","w","d","/","s",".","x","l","s","x">>}

\* how many times the files of the set have been written
RECURSIVE WritesOf(_, _)
WritesOf(files, paths) ==
    IF paths = {} THEN 0
    ELSE LET p == CHOOSE q \in paths : TRUE
         IN (files[p].mtime - Disk[p].mtime) + WritesOf(files, paths \ {p})

\* between two calls a file is written: other contents, or the same again
Rewrite ==
    /\ pc = "idle"
    /\ earlier # <<>>
    /\ WritesOf(fs, RewritePaths) < MaxWrites
    /\ \E p \in RewritePaths, c \in {"text", "text2", "xlsx"} :
          fs' = [fs EXCEPT ![p] = [File(c) EXCEPT !.mtime = fs[p].mtime + 1]]
    /\ UNCHANGED <<fileEntries, options, envWorkspacePath, fsLog, pc, workspaceRoot, idx, cur,
                   documents, warnings, outcome>>
    /\ UNCHANGED <<reconVars, callerVars>>

NextTwice ==
    Call \/ Descriptor \/ Access \/ Stat \/ Extract \/ Checksum \/ Finish \/ CallAgain \/ Rewrite

TwiceEntries ==
    {JsString(<<"a",".","t","x","t">>), JsString(<<"b","a","d",".","t","x","t">>), JsString(<<"r",".","p","d","f">>), JsString(<<"f",".","d","o","c","x">>),
     JsString(<<"w",".","d","o","c">>), JsString(<<"s",".","x","l","s","x">>), JsString(<<"m","i","s","s","i","n","g",".","t","x","t">>), JsString(<<"x",".","c","s","v">>)}

TwiceInit ==
    \E e \in TwiceEntries, opts \in OptionSets :
        CallOf(JsArray(<<e>>), opts, JsUndefined)

SpecTwice == TwiceInit /\ [][NextTwice]_vars

\* the files another process writes while a call is running
RacePaths ==
    {<<"/","c","w","d","/","a",".","t","x","t">>, <<"/","c","w","d","/","r",".","p","d","f">>, <<"/","c","w","d","/","f",".","d","o","c","x">>, <<"/","c","w","d","/","w",".","d","o","c">>, <<"/","c","w","d","/","s",".","x","l","s","x">>}

\* what the other process writes: a file of each format, and an empty one
RaceContents == {"text2", "pdf2", "docx2", "doc2", "xlsx2", "empty"}

\* another process writes a file while loadDocuments waits on one of its
\* awaits: before the access check, the stat, the loader or the read
OtherProcessWrites ==
    /\ pc \in {"entry", "access", "stat", "extract", "checksum"}
    /\ WritesOf(fs, RacePaths) < MaxWrites
    /\ \E p \in RacePaths, c \in RaceContents :
          fs' = [fs EXCEPT ![p] = [File(c) EXCEPT !.mtime = fs[p].mtime + 1]]
    /\ UNCHANGED <<fileEntries, options, envWorkspacePath, fsLog, pc, workspaceRoot, idx, cur,
                   documents, warnings, outcome>>
    /\ UNCHANGED <<reconVars, callerVars>>

NextRace ==
    Call \/ Descriptor \/ Access \/ Stat \/ Extract \/ Checksum \/ Finish \/ OtherProcessWrites

RaceEntries ==
    {JsString(<<"a",".","t","x","t">>), JsString(<<"r",".","p","d","f">>), JsString(<<"f",".","d","o","c","x">>), JsString(<<"w",".","d","o","c">>),
     JsString(<<"s",".","x","l","s","x">>)}

RaceInit ==
    \E e \in RaceEntries, opts \in OptionSets :
        CallOf(JsArray(<<e>>), opts, JsUndefined)

SpecRace == RaceInit /\ [][NextRace]_vars

\* ---------------------------------------------------------------------
\* The coralFlow profile (profiles/coral-flow.mjs, text-utils.mjs)
\* ---------------------------------------------------------------------

\* value.replace(/[^a-z0-9]+/g, "-")
RECURSIVE ReplaceNonAlnumByDash(_)
ReplaceNonAlnumByDash(s) ==
    IF s = <<>> THEN <<>>
    ELSE IF Head(s) \in AlnumLower
         THEN <<Head(s)>> \o ReplaceNonAlnumByDash(Tail(s))
         ELSE <<"-">> \o ReplaceNonAlnumByDash(DropUntil(Tail(s), AlnumLower))

\* value.replace(/^-|-$/g, "")
StripDashes(s) ==
    LET a == IF s # <<>> /\ Head(s) = "-" THEN Tail(s) ELSE s
    IN IF a # <<>> /\ a[Len(a)] = "-" THEN SubSeq(a, 1, Len(a) - 1) ELSE a

\* slugify(value, { fallback }) for a string (of ASCII characters)
slugify(value, fallback) ==
    LET normalized == StripDashes(ReplaceNonAlnumByDash(ToLowerCase(value)))
    IN IF normalized = <<>> THEN fallback ELSE normalized

\* pruneObject for one property: null, undefined and blank strings are left
\* out (undefined here), other strings are trimmed
Pruned(x) ==
    IF x.t = "null" THEN JsUndefined
    ELSE IF x.t = "string" THEN (IF Trim(x.v) = <<>> THEN JsUndefined ELSE JsString(Trim(x.v)))
    ELSE x

\* the first truthy value of a chain of ||, or its last operand
RECURSIVE FirstTruthy(_, _)
FirstTruthy(xs, last) ==
    IF xs = <<>> THEN last
    ELSE IF Truthy(xs[1]) THEN xs[1] ELSE FirstTruthy(Tail(xs), last)

\* path.basename(p, path.extname(p))
PathBasenameWithoutExt(p) ==
    LET segs == SplitPath(StripTrailingSlashes(p))
        base == segs[Len(segs)]
    IN SubSeq(base, 1, Len(base) - Len(PathExtname(p)))

\* documents.map(label || basename || path).filter(Boolean)
DocumentNames(docs) ==
    FilterNonEmpty([i \in 1..Len(docs) |->
        IF Truthy(docs[i].label) THEN docs[i].label.v
        ELSE IF PathBasenameWithoutExt(StringOrEmpty(docs[i].path)) # <<>>
        THEN PathBasenameWithoutExt(StringOrEmpty(docs[i].path))
        ELSE StringOrEmpty(docs[i].path)])

\* names.join(", ")
RECURSIVE JoinNames(_)
JoinNames(names) ==
    IF names = <<>> THEN <<>>
    ELSE IF Len(names) = 1 THEN names[1]
    ELSE names[1] \o <<",", " ">> \o JoinNames(Tail(names))

MATERIAL_DEFAULT_STATUS == <<"P","e","n","d","i","n","g">>

JOB_DEFAULT_STATUS == <<"P","e","n","d","i","n","g">>

\* the properties of a raw job the profile reads, all absent
NoJob ==
    [job_id |-> JsUndefined, order_id |-> JsUndefined, id |-> JsUndefined,
     jobNumber |-> JsUndefined, orderNumber |-> JsUndefined, reference |-> JsUndefined,
     job_name |-> JsUndefined, client_name |-> JsUndefined, status |-> JsUndefined,
     created_at |-> JsUndefined, notes |-> JsUndefined]

\* the properties of a raw material the ids and the name are made of, all
\* absent
NoMaterial ==
    [material_id |-> JsUndefined, id |-> JsUndefined, sku |-> JsUndefined,
     reference |-> JsUndefined, job_id |-> JsUndefined, name |-> JsUndefined,
     material_name |-> JsUndefined, item |-> JsUndefined, description |-> JsUndefined,
     status |-> JsUndefined, source_excerpt |-> JsUndefined]

\* a raw job as a value of the JSON
JsonJob(props) == [t |-> "job", v |-> props]

\* json.job || {}
RawJobOf(x) == IF x.t = "job" THEN x.v ELSE NoJob

\* a raw material as a value of the JSON
JsonMaterial(props) == [t |-> "material", v |-> props]

\* candidates.job_id || candidates.order_id || ... || "": what .trim() is
\* called on
JobIdCandidate(rawJob) ==
    FirstTruthy(<<rawJob.job_id, rawJob.order_id, rawJob.id, rawJob.jobNumber,
                  rawJob.orderNumber, rawJob.reference>>, JsString(<<>>))

\* the TypeError of .trim() on what is no string
TrimTypeError == "trim is not a function"

\* normalizeJob(rawJob, { documentNames }); today is the date of the call
normalizeJob(rawJob, documentNames) ==
    LET jobId == Trim(FirstTruthy(<<rawJob.job_id, rawJob.order_id, rawJob.id, rawJob.jobNumber,
                                    rawJob.orderNumber, rawJob.reference>>, JsString(<<>>)).v)
    IN [job_id |-> Pruned(JsString(jobId)),
        job_name |-> Pruned(JsOr(rawJob.job_name, JsString(<<>>))),
        client_name |-> Pruned(JsOr(rawJob.client_name, JsString(<<>>))),
        status |-> Pruned(JsOr(rawJob.status, JsString(JOB_DEFAULT_STATUS))),
        created_at |-> Pruned(JsOr(rawJob.created_at, JsString(<<"t","o","d","a","y">>))),
        notes |-> Pruned(IF Truthy(rawJob.notes) THEN rawJob.notes
                         ELSE IF documentNames # <<>>
                         THEN JsString(<<"P","a","r","s","e","d"," ","f","r","o","m",":"," ">>
                                       \o JoinNames(documentNames))
                         ELSE JsUndefined)]

\* the material_id generated for a material
GeneratedId(name, jobId, index) ==
    slugify(StringOrEmpty(JsOr(jobId, JsString(<<"j","o","b">>))), <<"i","t","e","m">>)
    \o <<"-">>
    \o slugify(IF Truthy(name) THEN name.v ELSE <<"m","a","t","e","r","i","a","l","-">> \o NatToString(index + 1),
               <<"m","a","t","e","r","i","a","l","-">> \o NatToString(index + 1))
    \o <<"-">> \o NatToString(index + 1)

\* normalizeMaterial giving every material the job's job_id
normalizeMaterialJobFirst(rawMaterial, jobId, index, documentNames) ==
    LET name == Pruned(FirstTruthy(<<rawMaterial.name, rawMaterial.material_name,
                                     rawMaterial.item, rawMaterial.description>>, JsString(<<>>)))
        supplied == Pruned(FirstTruthy(<<rawMaterial.material_id, rawMaterial.id,
                                         rawMaterial.sku>>, rawMaterial.reference))
        excerpt == Pruned(JsOr(rawMaterial.source_excerpt, JsString(<<>>)))
    IN [material_id |-> IF Truthy(supplied) THEN supplied
                        ELSE JsString(GeneratedId(name, jobId, index)),
        job_id |-> Pruned(JsOr(jobId, JsOr(rawMaterial.job_id, JsString(<<>>)))),
        name |-> name,
        status |-> Pruned(JsOr(rawMaterial.status, JsString(MATERIAL_DEFAULT_STATUS))),
        source_excerpt |->
            IF ~Truthy(excerpt) /\ documentNames # <<>>
            THEN JsString(<<"D","e","r","i","v","e","d"," ","f","r","o","m"," ">>
                          \o JoinNames(documentNames))
            ELSE excerpt]

\* normalizeMaterial(rawMaterial, { jobId, index, documentNames }), for the
\* properties above
normalizeMaterial(rawMaterial, jobId, index, documentNames) ==
    LET name == Pruned(FirstTruthy(<<rawMaterial.name, rawMaterial.material_name,
                                     rawMaterial.item, rawMaterial.description>>, JsString(<<>>)))
        supplied == Pruned(FirstTruthy(<<rawMaterial.material_id, rawMaterial.id,
                                         rawMaterial.sku>>, rawMaterial.reference))
        excerpt == Pruned(JsOr(rawMaterial.source_excerpt, JsString(<<>>)))
    IN [material_id |-> IF Truthy(supplied) THEN supplied
                        ELSE JsString(GeneratedId(name, jobId, index)),
        job_id |-> IF ~Truthy(Pruned(JsOr(rawMaterial.job_id, JsOr(jobId, JsString(<<>>)))))
                      /\ Truthy(jobId)
                   THEN jobId
                   ELSE Pruned(JsOr(rawMaterial.job_id, JsOr(jobId, JsString(<<>>)))),
        name |-> name,
        status |-> Pruned(JsOr(rawMaterial.status, JsString(MATERIAL_DEFAULT_STATUS))),
        source_excerpt |->
            IF ~Truthy(excerpt) /\ documentNames # <<>>
            THEN JsString(<<"D","e","r","i","v","e","d"," ","f","r","o","m"," ">>
                          \o JoinNames(documentNames))
            ELSE excerpt]

\* the array of raw materials: json.materials, json.items or json.records
RawMaterials(json) ==
    IF json.materials.t = "array" THEN json.materials.v
    ELSE IF json.items.t = "array" THEN json.items.v
    ELSE IF json.records.t = "array" THEN json.records.v
    ELSE <<>>

Operation(method, payload) == [method |-> method, payload |-> payload]

\* prepareCoralFlowData: documentNames, normalizeJob (throwing when the job id
\* is no string) and the warning for a job without job_id
CoralJob ==
    /\ coral.pc = "job"
    /\ LET documentNames == DocumentNames(coral.docs)
           job == normalizeJob(RawJobOf(coral.json.job), documentNames)
       IN IF JobIdCandidate(RawJobOf(coral.json.job)).t # "string"
          THEN coral' = [coral EXCEPT !.documentNames = documentNames, !.pc = "threw"]
          ELSE coral' = [coral EXCEPT
                  !.documentNames = documentNames,
                  !.job = job,
                  !.warnings = IF ~Truthy(job.job_id)
                               THEN Append(@, [kind |-> "Job ID was not detected in the source material.",
                                               index |-> 0, name |-> <<>>])
                               ELSE @,
                  !.pc = "materials"]
    /\ UNCHANGED <<reconVars, loaderVars, earlier, cliVars, structVars>>

\* one call of the forEach callback: normalizeMaterial, the skip of a
\* material without name, the warning for one without job_id, the push
CoralMaterial ==
    /\ coral.pc = "materials"
    /\ coral.index < Len(RawMaterials(coral.json))
    /\ LET normalized == normalizeMaterial(RawMaterials(coral.json)[coral.index + 1].v,
                                           coral.job.job_id, coral.index, coral.documentNames)
       IN coral' = [coral EXCEPT
              !.index = @ + 1,
              !.warnings =
                  IF ~Truthy(normalized.name)
                  THEN Append(@, [kind |-> "Material entry is missing a name and was skipped.",
                                  index |-> coral.index + 1, name |-> <<>>])
                  ELSE IF ~Truthy(normalized.job_id)
                  THEN Append(@, [kind |-> "Material is missing a job_id.",
                                  index |-> coral.index + 1, name |-> normalized.name.v])
                  ELSE @,
              !.materials = IF ~Truthy(normalized.name) THEN @ ELSE Append(@, normalized)]
    /\ UNCHANGED <<reconVars, loaderVars, earlier, cliVars, structVars>>

\* the operations: createJob for a job with job_id, then createMaterial for
\* every material, and the return
CoralOperations ==
    /\ coral.pc = "materials"
    /\ coral.index >= Len(RawMaterials(coral.json))
    /\ coral' = [coral EXCEPT
          !.operations =
              (IF Truthy(coral.job.job_id) THEN <<Operation("createJob", coral.job)>> ELSE <<>>)
              \o [i \in 1..Len(coral.materials) |-> Operation("createMaterial", coral.materials[i])],
          !.returned = TRUE,
          !.pc = "done"]
    /\ UNCHANGED <<reconVars, loaderVars, earlier, cliVars, structVars>>

NextCoral == CoralJob \/ CoralMaterial \/ CoralOperations


MaxMaterials == 2

\* the jobs, materials and documents the profile is given
CoralJobs ==
    {JsUndefined, JsNull,
     JsonJob(NoJob),
     JsonJob([NoJob EXCEPT !.job_id = JsString(<<"J","O","B","-","2","4","1","6">>), !.job_name = JsString(<<"A","n","g","e","l">>)]),
     JsonJob([NoJob EXCEPT !.job_id = JsString(<<" "," ">>)]),
     JsonJob([NoJob EXCEPT !.job_id = JsString(<<" "," ">>), !.reference = JsString(<<"R"," ","7">>)]),
     JsonJob([NoJob EXCEPT !.order_id = JsString(<<" ","O","/","2"," ">>), !.notes = JsString(<<"n">>)]),
     JsonJob([NoJob EXCEPT !.job_id = JsString(<<"J","1">>), !.order_id = JsString(<<"O","2">>)])}

CoralMaterials ==
    {JsonMaterial(NoMaterial),
     JsonMaterial([NoMaterial EXCEPT !.name = JsString(<<"A","n","g","e","l"," ","w","i","n","g"," ","b","r","a","c","k","e","t","s">>)]),
     JsonMaterial([NoMaterial EXCEPT !.name = JsString(<<" "," ">>), !.material_id = JsString(<<"M","0">>)]),
     JsonMaterial([NoMaterial EXCEPT !.name = JsString(<<"R","e","s","i","n">>), !.material_id = JsString(<<"M","1">>)]),
     JsonMaterial([NoMaterial EXCEPT !.name = JsString(<<"N","u","t">>), !.job_id = JsString(<<"X","9">>)]),
     JsonMaterial([NoMaterial EXCEPT !.name = JsString(<<"P","i","n">>), !.job_id = JsString(<<" ">>)]),
     JsonMaterial([NoMaterial EXCEPT !.description = JsString(<<" ","G","l","u","e"," ","1"," ">>), !.sku = JsString(<<"S","-","1">>)]),
     JsonMaterial([NoMaterial EXCEPT !.item = JsString(<<"-","-">>), !.reference = JsString(<<" ">>)])}

CoralDocuments ==
    {<<>>,
     <<[label |-> JsString(<<"D">>), path |-> JsString(<<"/","x","/","f",".","d","o","c","x">>)]>>,
     <<[label |-> JsNull, path |-> JsString(<<"/","x","/","f",".","d","o","c","x">>)],
       [label |-> JsUndefined, path |-> JsString(<<".","t","x","t">>)]>>}

CoralJson(job, list, key) ==
    [job |-> job,
     materials |-> IF key = "materials" THEN JsArray(list)
                   ELSE IF key = "records" THEN JsString(<<"x">>) ELSE JsUndefined,
     items |-> IF key = "items" THEN JsArray(list) ELSE JsUndefined,
     records |-> IF key = "records" THEN JsArray(list) ELSE JsUndefined]

CoralInit ==
    /\ \E job \in CoralJobs, list \in SeqsUpTo(CoralMaterials, MaxMaterials),
          key \in {"materials", "items", "records", "none"}, docs \in CoralDocuments :
          /\ key \in {"items", "records", "none"} => docs = <<>> /\ Len(list) = MaxMaterials
          /\ coral = [CoralOff EXCEPT !.pc = "job", !.json = CoralJson(job, list, key),
                                      !.docs = docs]
    /\ ReconIdle /\ LoaderIdle /\ text = JsString(<<>>) /\ layout = NoLayout
    /\ earlier = <<>> /\ tool = NoTool /\ llmEnv = {}
    /\ stdin = NoStdin /\ cli = "off" /\ stdout = <<>> /\ stderr = <<>> /\ exitCode = JsNull

SpecCoral == CoralInit /\ [][NextCoral]_vars

\* ---------------------------------------------------------------------
\* The markdown command line tool (process-documents)
\* ---------------------------------------------------------------------

\* a number of a JSON text, in tenths, so that 2.5 is JsonNumber(25)
JsonNumber(tenths) == [t |-> "number", tenths |-> tenths]

JsBoolean(b) == [t |-> "boolean", v |-> b]

\* the properties of a payload the tool reads, all absent
NoProps ==
    [input |-> JsUndefined, arguments |-> JsUndefined, args |-> JsUndefined,
     file |-> JsUndefined, fileLabel |-> JsUndefined, label |-> JsUndefined,
     files |-> JsUndefined, documents |-> JsUndefined, paths |-> JsUndefined,
     options |-> JsUndefined, tool |-> JsUndefined, metadata |-> JsUndefined,
     profile |-> JsUndefined, workspaceRoot |-> JsUndefined, prompt |-> JsUndefined,
     mode |-> JsUndefined]

\* an object of a payload with the given properties
JsonObject(props) == [t |-> "payload", v |-> props]

EmptyObject == JsonObject(NoProps)

\* the properties of an options object, all absent
NoOptionProps ==
    [maxPreviewChars |-> JsUndefined, tableSampleRows |-> JsUndefined,
     previewLimit |-> JsUndefined, includeRaw |-> JsUndefined, profile |-> JsUndefined]

JsonOptions(props) == [t |-> "options", v |-> props]

\* typeof x === "object" (null included, as in the language)
TypeofObject(x) == x.t \in {"object", "array", "payload", "options", "null"}

\* !x for the values of a payload
Falsy(x) ==
    CASE x.t \in {"undefined", "null"} -> TRUE
      [] x.t = "boolean" -> ~x.v
      [] x.t = "number" -> IF "tenths" \in DOMAIN x THEN x.tenths = 0 ELSE x.v = 0
      [] x.t = "string" -> x.v = <<>>
      [] OTHER -> FALSE

\* a || b for the values of a payload
JsonOr(a, b) == IF Falsy(a) THEN b ELSE a

\* a property of a value that may be no payload object
Prop(x, name) == IF x.t = "payload" THEN x.v[name] ELSE JsUndefined

\* readJsonFromStdin()
readJsonFromStdin(in) ==
    IF in.raw \in {"empty", "blank"} THEN Returned(JsNull)
    ELSE IF in.raw = "invalid" THEN Threw("Failed to parse JSON from stdin")
    ELSE Returned(in.json)

\* normaliseInput(payload)
normaliseInput(payload) ==
    IF Falsy(payload) \/ ~TypeofObject(payload) \/ payload.t = "array" THEN EmptyObject
    ELSE IF ~Falsy(Prop(payload, "input")) /\ TypeofObject(Prop(payload, "input"))
    THEN Prop(payload, "input")
    ELSE IF ~Falsy(Prop(payload, "arguments")) /\ TypeofObject(Prop(payload, "arguments"))
    THEN Prop(payload, "arguments")
    ELSE IF ~Falsy(Prop(payload, "args")) /\ TypeofObject(Prop(payload, "args"))
    THEN Prop(payload, "args")
    ELSE IF payload.t = "payload"
    THEN JsonObject([payload.v EXCEPT !.tool = JsUndefined, !.metadata = JsUndefined])
    ELSE payload

\* a string property trimmed, or undefined
TrimmedOrUndefined(x) == IF x.t = "string" THEN JsString(Trim(x.v)) ELSE JsUndefined

\* a string property, or undefined
StringOrUndefined(x) == IF x.t = "string" THEN x ELSE JsUndefined

\* the descriptor of the one entry of a legacy list
LegacyDescriptor(list) ==
    IF Len(list.v) # 1
    THEN Threw("process_documents now accepts exactly one file entry.")
    ELSE LET entry == list.v[1]
         IN IF entry.t = "string" /\ Trim(entry.v) # <<>>
            THEN Returned(JsObject(JsString(Trim(entry.v)), JsUndefined, JsUndefined))
            ELSE IF entry.t = "object" /\ entry.v.path.t = "string"
            THEN Returned(JsObject(entry.v.path, StringOrUndefined(entry.v.label),
                                   StringOrUndefined(entry.v.type)))
            ELSE Threw("Invalid file descriptor. Provide a path string or { path } object.")

\* extractFileDescriptor taking the file property without trimming it
extractFileDescriptorUntrimmed(input) ==
    LET file == Prop(input, "file")
        legacyLists == JsonOr(Prop(input, "files"),
                             JsonOr(Prop(input, "documents"), Prop(input, "paths")))
    IN IF Falsy(input) \/ ~TypeofObject(input) THEN Returned(JsNull)
       ELSE IF file.t = "string" /\ file.v # <<>>
       THEN Returned(JsObject(file,
                IF Prop(input, "fileLabel").t = "string"
                THEN TrimmedOrUndefined(Prop(input, "fileLabel"))
                ELSE TrimmedOrUndefined(Prop(input, "label")),
                JsUndefined))
       ELSE IF legacyLists.t = "array" THEN LegacyDescriptor(legacyLists)
       ELSE Returned(JsNull)

\* extractFileDescriptor(input)
extractFileDescriptor(input) ==
    LET file == Prop(input, "file")
        legacyLists == JsonOr(Prop(input, "files"),
                             JsonOr(Prop(input, "documents"), Prop(input, "paths")))
    IN IF Falsy(input) \/ ~TypeofObject(input) THEN Returned(JsNull)
       ELSE IF file.t = "string" /\ Trim(file.v) # <<>>
       THEN Returned(JsObject(JsString(Trim(file.v)),
                IF Prop(input, "fileLabel").t = "string"
                THEN TrimmedOrUndefined(Prop(input, "fileLabel"))
                ELSE TrimmedOrUndefined(Prop(input, "label")),
                JsUndefined))
       ELSE IF legacyLists.t = "array" THEN LegacyDescriptor(legacyLists)
       ELSE Returned(JsNull)

\* Math.floor of a number in tenths
MathFloor(tenths) == tenths \div 10

MathMax(a, b) == IF a >= b THEN a ELSE b

MIN_PREVIEW_CHARS == 500

MIN_TABLE_SAMPLE_ROWS == 1

\* the options of no options object
NoResolved == [tableSampleRows |-> JsUndefined, previewLimit |-> JsUndefined,
               includeRaw |-> JsUndefined]

\* a number of a JSON text as the loader uses it: it slices by the number,
\* which takes its whole part (the numbers passed on are whole or above 1)
AsLoaderNumber(x) ==
    IF x.t = "number" /\ "tenths" \in DOMAIN x THEN JsNumber(MathFloor(x.tenths)) ELSE x

\* resolveOptions passing tableSampleRows as it was given
resolveOptionsUnclamped(inputOptions) ==
    IF inputOptions.t # "options" THEN NoResolved
    ELSE LET o == inputOptions.v
         IN [tableSampleRows |-> AsLoaderNumber(o.tableSampleRows),
             previewLimit |->
                IF o.maxPreviewChars.t = "number"
                THEN JsNumber(MathFloor(MathMax(MIN_PREVIEW_CHARS * 10, o.maxPreviewChars.tenths)))
                ELSE AsLoaderNumber(o.previewLimit),
             includeRaw |-> o.includeRaw]

\* resolveOptions(inputOptions)
resolveOptions(inputOptions) ==
    IF inputOptions.t # "options" THEN NoResolved
    ELSE LET o == inputOptions.v
         IN [tableSampleRows |->
                IF o.tableSampleRows.t = "number"
                THEN JsNumber(MathMax(MIN_TABLE_SAMPLE_ROWS, MathFloor(o.tableSampleRows.tenths)))
                ELSE o.tableSampleRows,
             previewLimit |->
                IF o.maxPreviewChars.t = "number"
                THEN JsNumber(MathFloor(MathMax(MIN_PREVIEW_CHARS * 10, o.maxPreviewChars.tenths)))
                ELSE AsLoaderNumber(o.previewLimit),
             includeRaw |-> o.includeRaw]

\* `${warning.detail}` for the details the loader records
DetailString(detail) ==
    IF detail.t = "error" THEN [text |-> detail.v] ELSE [text |-> JsToString(detail)]

\* the line emitWarnings writes for a warning
WarningLine(w) ==
    [prefix |-> "Warning: ", message |-> w.message, path |-> w.path,
     detail |-> IF w.detail.t = "error" \/ Truthy(w.detail)
                THEN <<" (", DetailString(w.detail), ")">>
                ELSE <<>>]

\* the line console.error writes for the message of an error
ErrorLine(m) == [prefix |-> "", message |-> m, path |-> <<>>, detail |-> <<>>]

\* emitWarnings(warnings): the lines written, in order
emitWarnings(ws) == [i \in 1..Len(ws) |-> WarningLine(ws[i])]

\* doc.path.split('/').pop()
LastSegment(path) ==
    IF \E i \in 1..Len(path) : path[i] = "/"
    THEN LET last == CHOOSE i \in 1..Len(path) :
                        path[i] = "/" /\ \A j \in (i + 1)..Len(path) : path[j] # "/"
         IN SubSeq(path, last + 1, Len(path))
    ELSE path

\* tableToMarkdown(table), by its parts
tableToMarkdown(table) ==
    IF table.sampleRows = <<>>
    THEN [heading |-> table.name, note |-> "*Empty sheet*", shown |-> 0, rows |-> <<>>]
    ELSE [heading |-> table.name,
          note |-> IF table.totalRows > Len(table.sampleRows)
                   THEN "*Total rows (showing first)*" ELSE "*Total rows*",
          shown |-> Len(table.sampleRows),
          rows |-> table.sampleRows]

\* doc.metadata?.pageCount, 0 when it is undefined: the "Pages" line is
\* printed for a value that is not 0
PageCountOf(doc) ==
    IF "metadata" \in DOMAIN doc THEN doc.metadata.pageCount ELSE 0

\* formatDocument(doc, index), by its parts
formatDocument(doc, index) ==
    [heading |-> index + 1,
     title |-> IF Truthy(doc.label) THEN doc.label.v ELSE LastSegment(doc.path),
     type |-> doc.type,
     path |-> doc.path,
     size |-> doc.stats.size,
     wordCount |-> doc.summary.wordCount,
     charCount |-> doc.summary.charCount,
     pages |-> PageCountOf(doc),
     tableCount |-> doc.summary.tableCount,
     tables |-> [i \in 1..Len(doc.tables) |-> tableToMarkdown(doc.tables[i])],
     content |-> IF Trim(doc.text) # <<>> /\ doc.type # XLSX THEN Trim(doc.text) ELSE <<>>]

\* documentsToMarkdown(documents)
documentsToMarkdown(docs) ==
    IF docs = <<>> THEN Threw("documentsToMarkdown requires at least one document.")
    ELSE Returned([i \in 1..Len(docs) |-> formatDocument(docs[i], i - 1)])

\* main, up to the call of loadDocuments: an unusable input ends the process
\* with the error's message on stderr and the exit code 1
CliMainWith(descriptor, payload) ==
    IF payload.threw \/ descriptor.threw \/ descriptor.value.t = "null"
    THEN /\ stderr' = Append(stderr, ErrorLine(
                IF payload.threw THEN payload.message
                ELSE IF descriptor.threw THEN descriptor.message
                ELSE "process_documents requires a \"file\" path to parse."))
         /\ exitCode' = JsNumber(1)
         /\ cli' = "exited"
         /\ UNCHANGED <<fileEntries, options, pc>>
    ELSE /\ fileEntries' = JsArray(<<descriptor.value>>)
         /\ options' = [workspaceRoot |-> JsUndefined,
                        tableSampleRows |->
                            resolveOptions(Prop(normaliseInput(JsonOr(payload.value, EmptyObject)), "options")).tableSampleRows,
                        previewLimit |->
                            resolveOptions(Prop(normaliseInput(JsonOr(payload.value, EmptyObject)), "options")).previewLimit]
         /\ pc' = "idle"
         /\ cli' = "loading"
         /\ UNCHANGED <<stderr, exitCode>>

\* main: readJsonFromStdin, normaliseInput, extractFileDescriptor,
\* resolveOptions and the call of loadDocuments
CliMain ==
    /\ cli = "start"
    /\ CliMainWith(IF readJsonFromStdin(stdin).threw THEN readJsonFromStdin(stdin)
                   ELSE extractFileDescriptor(
                            normaliseInput(JsonOr(readJsonFromStdin(stdin).value, EmptyObject))),
                   readJsonFromStdin(stdin))
    /\ UNCHANGED <<envWorkspacePath, fs, fsLog, workspaceRoot, idx, cur, documents, warnings,
                   outcome, earlier, stdin, stdout, coral, structVars>>
    /\ UNCHANGED reconVars

\* main, after loadDocuments: the catch for its error, or the warnings, the
\* markdown and the end of the process
CliFinish ==
    /\ cli = "loading"
    /\ pc = "done"
    /\ IF outcome.state = "threw"
       THEN /\ stderr' = Append(stderr, ErrorLine(outcome.message))
            /\ exitCode' = JsNumber(1)
            /\ UNCHANGED stdout
       ELSE IF documentsToMarkdown(documents).threw
       THEN /\ stderr' = Append(stderr \o emitWarnings(warnings),
                                ErrorLine(documentsToMarkdown(documents).message))
            /\ exitCode' = JsNumber(1)
            /\ UNCHANGED stdout
       ELSE /\ stderr' = stderr \o emitWarnings(warnings)
            /\ stdout' = Append(stdout, documentsToMarkdown(documents).value)
            /\ exitCode' = JsNumber(0)
    /\ cli' = "exited"
    /\ UNCHANGED <<loaderVars, reconVars, earlier, stdin, coral, structVars>>

NextCli ==
    CliMain \/ Call \/ Descriptor \/ Access \/ Stat \/ Extract \/ Checksum \/ Finish \/ CliFinish


\* what the tool is given on stdin
CliFiles == {<<"a",".","t","x","t">>, <<"m","i","s","s","i","n","g",".","t","x","t">>, <<"x",".","c","s","v">>, <<"s",".","x","l","s","x">>, <<"f",".","d","o","c","x">>, <<"r",".","p","d","f">>, <<"w",".","d","o","c">>, <<"n",".","t","e","x","t">>,
             <<>>, <<" "," "," ">>, <<" ","a",".","t","x","t"," ">>}

FileInput(file) == JsonObject([NoProps EXCEPT !.file = file])

OptionsInput(file, opts) ==
    JsonObject([NoProps EXCEPT !.file = JsString(file), !.options = JsonOptions(opts)])

\* the configured tableSampleRows values, in tenths
SampleRowsConfigured == {0 - 10, 0, 5, 10, 20, 25, 50, 70}

CliPayloads ==
    {JsNull, JsNumber(7), JsString(<<"a",".","t","x","t">>), JsArray(<<JsString(<<"a",".","t","x","t">>)>>), EmptyObject}
    \cup {FileInput(JsString(f)) : f \in CliFiles}
    \cup {FileInput(JsNumber(7)),
          JsonObject([NoProps EXCEPT !.file = JsString(<<"a",".","t","x","t">>), !.label = JsString(<<" ","L"," ">>)]),
          JsonObject([NoProps EXCEPT !.file = JsString(<<"a",".","t","x","t">>), !.fileLabel = JsString(<<"F">>),
                                     !.label = JsString(<<"L">>)]),
          JsonObject([NoProps EXCEPT !.file = JsString(<<"a",".","t","x","t">>), !.tool = JsString(<<"p">>),
                                     !.metadata = EmptyObject]),
          JsonObject([NoProps EXCEPT !.input = FileInput(JsString(<<"b",".","t","x","t">>))]),
          JsonObject([NoProps EXCEPT !.input = JsString(<<"a",".","t","x","t">>), !.file = JsString(<<"b",".","t","x","t">>)]),
          JsonObject([NoProps EXCEPT !.arguments = FileInput(JsString(<<"r",".","p","d","f">>))]),
          JsonObject([NoProps EXCEPT !.args = FileInput(JsString(<<"m","i","s","s","i","n","g",".","t","x","t">>))]),
          JsonObject([NoProps EXCEPT !.args = EmptyObject, !.file = JsString(<<"a",".","t","x","t">>)]),
          JsonObject([NoProps EXCEPT !.files = JsArray(<<JsString(<<"a",".","t","x","t">>)>>)]),
          JsonObject([NoProps EXCEPT !.files = JsArray(<<JsString(<<"a",".","t","x","t">>), JsString(<<"b",".","t","x","t">>)>>)]),
          JsonObject([NoProps EXCEPT !.files = JsArray(<<>>)]),
          JsonObject([NoProps EXCEPT !.files = JsString(<<"a",".","t","x","t">>)]),
          JsonObject([NoProps EXCEPT !.file = JsString(<<" "," "," ">>),
                                     !.documents = JsArray(<<JsString(<<" ","b",".","t","x","t"," ">>)>>)]),
          JsonObject([NoProps EXCEPT !.documents = JsArray(<<
              JsObject(JsString(<<"a",".","t","x","t">>), JsString(<<"L">>), JsString(<<"p","d","f">>))>>)]),
          JsonObject([NoProps EXCEPT !.paths = JsArray(<<JsNumber(7)>>)]),
          JsonObject([NoProps EXCEPT !.paths = JsArray(<<JsString(<<" "," ">>)>>)]),
          JsonObject([NoProps EXCEPT !.paths = JsArray(<<
              JsObject(JsString(<<" "," "," ">>), JsUndefined, JsUndefined)>>)]),
          JsonObject([NoProps EXCEPT !.paths = JsArray(<<
              JsObject(JsString(<<"s",".","x","l","s","x">>), JsNumber(7), JsUndefined)>>)]),
          JsonObject([NoProps EXCEPT !.file = JsString(<<"a",".","t","x","t">>), !.options = JsString(<<"x">>)])}
    \cup {OptionsInput(<<"s",".","x","l","s","x">>, [NoOptionProps EXCEPT !.tableSampleRows = JsonNumber(n)]) :
             n \in SampleRowsConfigured}
    \cup {OptionsInput(<<"a",".","t","x","t">>, [NoOptionProps EXCEPT !.maxPreviewChars = JsonNumber(n)]) :
             n \in {10, 6000}}
    \cup {OptionsInput(<<"a",".","t","x","t">>, [NoOptionProps EXCEPT !.previewLimit = JsonNumber(30)]),
          OptionsInput(<<"a",".","t","x","t">>, [NoOptionProps EXCEPT !.previewLimit = JsonNumber(30),
                                                      !.maxPreviewChars = JsonNumber(10)]),
          OptionsInput(<<"s",".","x","l","s","x">>, [NoOptionProps EXCEPT !.includeRaw = JsBoolean(TRUE)])}

CliInputs == {NoStdin, BlankStdin, InvalidStdin} \cup {JsonStdin(p) : p \in CliPayloads}

\* the process started with an input on stdin; loadDocuments is not called yet
CliInit ==
    /\ stdin \in CliInputs
    /\ cli = "start" /\ stdout = <<>> /\ stderr = <<>> /\ exitCode = JsNull
    /\ earlier = <<>> /\ coral = CoralOff /\ tool = NoTool /\ llmEnv = {}
    /\ fileEntries = JsArray(<<>>) /\ options = NoOptions /\ envWorkspacePath = JsUndefined
    /\ fs = Disk /\ fsLog = <<>> /\ pc = "off" /\ idx = 0 /\ workspaceRoot = JsUndefined
    /\ cur = NoLocals /\ documents = <<>> /\ warnings = <<>> /\ outcome = Pending
    /\ text = JsString(<<>>) /\ layout = NoLayout /\ ReconIdle

SpecCli == CliInit /\ [][NextCli]_vars

\* ---------------------------------------------------------------------
\* The structured extraction command line tool (src/tools/process-documents)
\* ---------------------------------------------------------------------

\* extractFiles(input)
extractFiles(input) ==
    IF Falsy(input) THEN <<>>
    ELSE IF Prop(input, "files").t = "array" THEN Prop(input, "files").v
    ELSE IF Prop(input, "documents").t = "array" THEN Prop(input, "documents").v
    ELSE IF Prop(input, "paths").t = "array" THEN Prop(input, "paths").v
    ELSE <<>>

\* resolveOptions(inputOptions) of this tool: that of the markdown tool, and
\* the profile trimmed and in lower case
resolveOptionsWithProfile(inputOptions) ==
    [tableSampleRows |-> resolveOptions(inputOptions).tableSampleRows,
     previewLimit |-> resolveOptions(inputOptions).previewLimit,
     includeRaw |-> resolveOptions(inputOptions).includeRaw,
     profile |-> IF inputOptions.t # "options" THEN JsUndefined
                 ELSE IF inputOptions.v.profile.t = "string"
                 THEN JsString(ToLowerCase(Trim(inputOptions.v.profile.v)))
                 ELSE inputOptions.v.profile]

\* normalizeProfile(value)
normalizeProfile(value) ==
    IF Falsy(value) \/ value.t # "string" THEN JsNull
    ELSE IF ToLowerCase(Trim(value.v)) = <<>> THEN JsNull
    ELSE JsString(ToLowerCase(Trim(value.v)))

\* Boolean(x)
ToBoolean(x) == ~Falsy(x)

\* the environment variables that hold a credential
CredentialKeys ==
    {"OPENAI_API_KEY", "ANTHROPIC_API_KEY", "GEMINI_API_KEY", "MISTRAL_API_KEY",
     "DEEPSEEK_API_KEY", "OPENROUTER_API_KEY", "LLM_API_KEY"}

\* hasLlmAccess(), for the set of the variables that are set and not empty
hasLlmAccess(env) == env \cap CredentialKeys # {}

\* guessProvider()
guessProvider(env) ==
    IF "OPENAI_API_KEY" \in env THEN JsString(<<"o","p","e","n","a","i">>)
    ELSE IF "OPENROUTER_API_KEY" \in env THEN JsString(<<"o","p","e","n","r","o","u","t","e","r">>)
    ELSE IF "ANTHROPIC_API_KEY" \in env THEN JsString(<<"a","n","t","h","r","o","p","i","c">>)
    ELSE IF "GEMINI_API_KEY" \in env THEN JsString(<<"g","e","m","i","n","i">>)
    ELSE IF "MISTRAL_API_KEY" \in env THEN JsString(<<"m","i","s","t","r","a","l">>)
    ELSE IF "DEEPSEEK_API_KEY" \in env THEN JsString(<<"d","e","e","p","s","e","e","k">>)
    ELSE IF "LLM_API_KEY" \in env THEN JsString(<<"g","e","n","e","r","i","c">>)
    ELSE JsNull

\* projectDocuments(documents, { includeRaw })
projectDocuments(docs, includeRaw) ==
    [i \in 1..Len(docs) |->
        [path |-> docs[i].path, label |-> docs[i].label, type |-> docs[i].type,
         checksum |-> docs[i].checksum, stats |-> docs[i].stats,
         summary |-> docs[i].summary, tables |-> docs[i].tables,
         rawText |-> IF includeRaw THEN JsString(docs[i].text) ELSE JsUndefined]]

\* the warning pushed when no credential is set
NoCredentialsWarning ==
    [message |-> "No LLM credentials detected; returning document previews only.",
     path |-> <<>>,
     detail |-> JsString(<<"S","e","t"," ","O","P","E","N","A","I","_","A","P","I","_","K","E","Y",","," ","A","N","T","H","R","O","P","I","C","_","A","P","I","_","K","E","Y",","," ","o","r"," ","c","o","m","p","a","t","i","b","l","e"," ","c","r","e","d","e","n","t","i","a","l","s"," ","t","o"," ","e","n","a","b","l","e"," ","s","t","r","u","c","t","u","r","e","d"," ","e","x","t","r","a","c","t","i","o","n",".">>)]

\* the warning pushed when the extraction failed
LlmFailedWarning(m) ==
    [message |-> "LLM processing failed; returning document previews only.",
     path |-> <<>>, detail |-> ErrorDetail(m)]

\* the warning pushed for a warning of the profile
ProfileWarning(w) ==
    [message |-> w, path |-> <<>>,
     detail |-> JsString(<<"c","o","r","a","l","F","l","o","w"," ","p","r","o","f","i","l","e"," ","n","o","r","m","a","l","i","s","a","t","i","o","n">>)]

\* the execution main starts with after loadDocuments
Fallback(ws) ==
    [status |-> "fallback", llm |-> [used |-> FALSE, provider |-> JsNull, error |-> ""],
     data |-> JsNull, warnings |-> ws, profile |-> JsNull]

\* the result naming the profile of the execution only
ResultWithoutRequestedProfile(t, docs) ==
    [status |-> t.execution.status,
     mode |-> t.mode,
     prompt |-> t.prompt,
     provider |-> t.execution.llm.provider,
     documents |-> projectDocuments(docs, t.includeRaw),
     data |-> t.execution.data,
     warnings |-> t.execution.warnings,
     profile |-> IF t.execution.profile.t # "null" THEN t.execution.profile.name ELSE JsNull,
     persistoOperations |-> IF t.execution.profile.t # "null"
                            THEN t.execution.profile.operations ELSE <<>>,
     profileResult |-> IF t.execution.profile.t # "null" THEN t.execution.profile ELSE JsUndefined]

\* the result main prints
Result(t, docs) ==
    [status |-> t.execution.status,
     mode |-> t.mode,
     prompt |-> t.prompt,
     provider |-> t.execution.llm.provider,
     documents |-> projectDocuments(docs, t.includeRaw),
     data |-> t.execution.data,
     warnings |-> t.execution.warnings,
     profile |-> IF t.execution.profile.t # "null" THEN t.execution.profile.name
                 ELSE IF t.profile.t # "null" THEN JsString(<<"c","o","r","a","l","F","l","o","w">>)
                 ELSE JsNull,
     persistoOperations |-> IF t.execution.profile.t # "null"
                            THEN t.execution.profile.operations ELSE <<>>,
     profileResult |-> IF t.execution.profile.t # "null" THEN t.execution.profile ELSE JsUndefined]

\* the end of main: the result on stdout
PrintResult(t) ==
    /\ stdout' = Append(stdout, Result(t, documents))
    /\ exitCode' = JsNumber(0)
    /\ cli' = "exited"
    /\ tool' = t
    /\ UNCHANGED stderr

\* the catch of main: the message on stderr and exit(1)
ExitWithError(m) ==
    /\ stderr' = Append(stderr, ErrorLine(m))
    /\ exitCode' = JsNumber(1)
    /\ cli' = "exited"
    /\ UNCHANGED stdout

\* main, up to the call of loadDocuments
StructMainWith(payload, input) ==
    IF payload.threw
    THEN /\ ExitWithError(payload.message)
         /\ UNCHANGED <<fileEntries, options, pc, tool>>
    ELSE IF extractFiles(input) = <<>>
    THEN /\ ExitWithError("process_documents requires a non-empty \"files\" array.")
         /\ UNCHANGED <<fileEntries, options, pc, tool>>
    ELSE /\ fileEntries' = JsArray(extractFiles(input))
         /\ options' = [workspaceRoot |-> Prop(input, "workspaceRoot"),
                        tableSampleRows |->
                            resolveOptionsWithProfile(Prop(input, "options")).tableSampleRows,
                        previewLimit |->
                            resolveOptionsWithProfile(Prop(input, "options")).previewLimit]
         /\ tool' = [NoTool EXCEPT
                !.profile = normalizeProfile(
                    JsonOr(Prop(input, "profile"),
                           resolveOptionsWithProfile(Prop(input, "options")).profile)),
                !.includeRaw = ToBoolean(resolveOptionsWithProfile(Prop(input, "options")).includeRaw),
                !.prompt = IF Prop(input, "prompt").t = "string" THEN Prop(input, "prompt") ELSE JsNull,
                !.mode = IF Prop(input, "mode").t = "string"
                            /\ ToLowerCase(Prop(input, "mode").v) = <<"u","p","d","a","t","e">>
                         THEN "update" ELSE "extract"]
         /\ pc' = "idle"
         /\ cli' = "loading"
         /\ UNCHANGED <<stdout, stderr, exitCode>>

\* main: readJsonFromStdin, normaliseInput, extractFiles, resolveOptions,
\* normalizeProfile and the call of loadDocuments
StructMain ==
    /\ cli = "start"
    /\ StructMainWith(readJsonFromStdin(stdin),
                      IF readJsonFromStdin(stdin).threw THEN EmptyObject
                      ELSE normaliseInput(JsonOr(readJsonFromStdin(stdin).value, EmptyObject)))
    /\ UNCHANGED <<envWorkspacePath, fs, fsLog, workspaceRoot, idx, cur, documents, warnings,
                   outcome, earlier, stdin, coral, llmEnv>>
    /\ UNCHANGED reconVars

\* main after loadDocuments: its error, or the execution record; without a
\* credential the warning and the result, else the call of the extraction
StructLoaded ==
    /\ cli = "loading"
    /\ pc = "done"
    /\ IF outcome.state = "threw"
       THEN /\ ExitWithError(outcome.message)
            /\ UNCHANGED tool
       ELSE IF hasLlmAccess(llmEnv)
       THEN /\ tool' = [tool EXCEPT !.execution = Fallback(warnings)]
            /\ cli' = "llm"
            /\ UNCHANGED <<stdout, stderr, exitCode>>
       ELSE PrintResult([tool EXCEPT
                !.execution = Fallback(Append(warnings, NoCredentialsWarning))])
    /\ UNCHANGED <<loaderVars, reconVars, earlier, stdin, coral, llmEnv>>

\* what runStructuredExtraction may answer
LlmAnswers ==
    {Threw("LLM request failed"),
     Returned([job |-> JsUndefined, materials |-> JsUndefined, items |-> JsUndefined,
               records |-> JsUndefined]),
     Returned([job |-> JsonJob([NoJob EXCEPT !.job_id = JsString(<<"J","1">>)]),
               materials |-> JsArray(<<JsonMaterial([NoMaterial EXCEPT !.name = JsString(<<"N","u","t">>)]),
                                       JsonMaterial(NoMaterial)>>),
               items |-> JsUndefined, records |-> JsUndefined]),
     Returned([job |-> JsonJob([NoJob EXCEPT !.job_id = JsNumber(2416)]),
               materials |-> JsArray(<<JsonMaterial([NoMaterial EXCEPT !.name = JsString(<<"N","u","t">>)])>>),
               items |-> JsUndefined, records |-> JsUndefined])}

\* the extraction has answered: the degraded execution for its error, the
\* result for its data, or the call of the profile
StructLlm ==
    /\ cli = "llm"
    /\ \E answer \in LlmAnswers :
          IF answer.threw
          THEN /\ PrintResult([tool EXCEPT
                      !.execution.status = "degraded",
                      !.execution.llm = [used |-> TRUE, provider |-> guessProvider(llmEnv),
                                         error |-> answer.message],
                      !.execution.warnings = Append(@, LlmFailedWarning(answer.message))])
               /\ UNCHANGED coral
          ELSE IF tool.profile = JsString(<<"c","o","r","a","l","f","l","o","w">>)
          THEN /\ tool' = [tool EXCEPT
                      !.execution.status = "ok",
                      !.execution.llm = [used |-> TRUE, provider |-> guessProvider(llmEnv),
                                         error |-> ""],
                      !.execution.data = [t |-> "json", v |-> answer.value]]
               /\ coral' = [CoralOff EXCEPT
                      !.pc = "job", !.json = answer.value,
                      !.docs = [i \in 1..Len(documents) |->
                                   [label |-> documents[i].label,
                                    path |-> JsString(documents[i].path)]]]
               /\ cli' = "profile"
               /\ UNCHANGED <<stdout, stderr, exitCode>>
          ELSE /\ PrintResult([tool EXCEPT
                      !.execution.status = "ok",
                      !.execution.llm = [used |-> TRUE, provider |-> guessProvider(llmEnv),
                                         error |-> ""],
                      !.execution.data = [t |-> "json", v |-> answer.value]])
               /\ UNCHANGED coral
    /\ UNCHANGED <<loaderVars, reconVars, earlier, stdin, llmEnv>>

\* the catch clearing the data of the extraction as well
ProfileFailedClearingData(t) ==
    [t EXCEPT
        !.execution.status = "degraded",
        !.execution.llm = [used |-> TRUE, provider |-> guessProvider(llmEnv),
                           error |-> TrimTypeError],
        !.execution.data = JsNull,
        !.execution.warnings = Append(@, LlmFailedWarning(TrimTypeError))]

\* the execution after prepareCoralFlowData threw, the extraction having
\* answered: the catch sets the status, llm and the warning, nothing else
ProfileFailed(t) ==
    [t EXCEPT
        !.execution.status = "degraded",
        !.execution.llm = [used |-> TRUE, provider |-> guessProvider(llmEnv),
                           error |-> TrimTypeError],
        !.execution.warnings = Append(@, LlmFailedWarning(TrimTypeError))]

\* prepareCoralFlowData has returned: the profile of the execution, its
\* warnings, and the result; or it has thrown: the catch, and the result
StructProfile ==
    /\ cli = "profile"
    /\ coral.pc \in {"done", "threw"}
    /\ IF coral.pc = "threw"
       THEN PrintResult(ProfileFailed(tool))
       ELSE PrintResult([tool EXCEPT
          !.execution.profile =
              [t |-> "profile", name |-> JsString(<<"c","o","r","a","l","F","l","o","w">>),
               job |-> coral.job, materials |-> coral.materials,
               operations |-> coral.operations, warnings |-> coral.warnings],
          !.execution.warnings =
              @ \o [i \in 1..Len(coral.warnings) |-> ProfileWarning(coral.warnings[i])]])
    /\ UNCHANGED <<loaderVars, reconVars, earlier, stdin, coral, llmEnv>>

NextStruct ==
    \/ StructMain \/ Call \/ Descriptor \/ Access \/ Stat \/ Extract \/ Checksum \/ Finish
    \/ StructLoaded \/ StructLlm \/ CoralJob \/ CoralMaterial \/ CoralOperations
    \/ StructProfile


\* what the tool is given on stdin, and the environments it runs in
StructFileLists ==
    {<<>>,
     <<JsString(<<"a",".","t","x","t">>)>>,
     <<JsString(<<"m","i","s","s","i","n","g",".","t","x","t">>)>>,
     <<JsString(<<"a",".","t","x","t">>), JsString(<<"s",".","x","l","s","x">>)>>,
     <<JsString(<<"a",".","t","x","t">>), JsString(<<"m","i","s","s","i","n","g",".","t","x","t">>)>>,
     <<JsString(<<"f",".","d","o","c","x">>), JsObject(JsString(<<"r",".","p","d","f">>), JsString(<<"L">>), JsUndefined)>>}

StructOptions ==
    {JsUndefined,
     JsonOptions([NoOptionProps EXCEPT !.profile = JsString(<<"c","o","r","a","l","F","l","o","w">>)]),
     JsonOptions([NoOptionProps EXCEPT !.profile = JsString(<<" ","C","o","r","a","l","F","l","o","w"," ">>),
                                       !.tableSampleRows = JsonNumber(10),
                                       !.includeRaw = JsBoolean(TRUE)]),
     JsonOptions([NoOptionProps EXCEPT !.profile = JsString(<<"o","t","h","e","r">>)]),
     JsonOptions([NoOptionProps EXCEPT !.profile = JsString(<<" "," ">>),
                                       !.includeRaw = JsBoolean(FALSE)])}

StructPayloads ==
    {JsNull, EmptyObject,
     JsonObject([NoProps EXCEPT !.file = JsString(<<"a",".","t","x","t">>)]),
     JsonObject([NoProps EXCEPT !.files = JsString(<<"a",".","t","x","t">>),
                                !.paths = JsArray(<<JsString(<<"b",".","t","x","t">>)>>),
                                !.profile = JsString(<<"c","o","r","a","l","F","l","o","w">>),
                                !.mode = JsString(<<"U","P","D","A","T","E">>),
                                !.prompt = JsString(<<"p">>)]),
     JsonObject([NoProps EXCEPT !.documents = JsArray(<<JsString(<<"a",".","t","x","t">>)>>),
                                !.workspaceRoot = JsString(<<"/","w","s">>),
                                !.profile = JsNumber(7)])}
    \cup {JsonObject([NoProps EXCEPT !.files = JsArray(list), !.options = opts]) :
             list \in StructFileLists, opts \in StructOptions}
    \cup {JsonObject([NoProps EXCEPT !.input =
                JsonObject([NoProps EXCEPT !.files = JsArray(list),
                                           !.options = JsonOptions([NoOptionProps EXCEPT
                                                !.profile = JsString(<<"c","o","r","a","l","F","l","o","w">>),
                                                !.tableSampleRows = JsonNumber(10),
                                                !.includeRaw = JsBoolean(FALSE)])])]) :
             list \in StructFileLists}

StructInputs == {NoStdin, InvalidStdin} \cup {JsonStdin(p) : p \in StructPayloads}

StructEnvironments ==
    {{}, {"PATH"}, {"OPENAI_API_KEY", "PATH"}, {"LLM_API_KEY"},
     {"ANTHROPIC_API_KEY", "GEMINI_API_KEY"}}

StructInit ==
    /\ stdin \in StructInputs
    /\ llmEnv \in StructEnvironments
    /\ tool = NoTool
    /\ cli = "start" /\ stdout = <<>> /\ stderr = <<>> /\ exitCode = JsNull
    /\ earlier = <<>> /\ coral = CoralOff
    /\ fileEntries = JsArray(<<>>) /\ options = NoOptions /\ envWorkspacePath = JsUndefined
    /\ fs = Disk /\ fsLog = <<>> /\ pc = "off" /\ idx = 0 /\ workspaceRoot = JsUndefined
    /\ cur = NoLocals /\ documents = <<>> /\ warnings = <<>> /\ outcome = Pending
    /\ text = JsString(<<>>) /\ layout = NoLayout /\ ReconIdle

SpecStruct == StructInit /\ [][NextStruct]_vars

\* ---------------------------------------------------------------------
\* Properties of the reconstructor
\* ---------------------------------------------------------------------

TableNames(ts) == [i \in 1..Len(ts) |-> ts[i].name]

\* the header row a fixture-shaped text is expected to give
ExpectedHeaderRow(present) ==
    [f \in HeaderFieldSet |->
        IF f \in present
        THEN (CHOOSE h \in {FixtureHeader[i] : i \in 1..Len(FixtureHeader)} : h.field = f).value
        ELSE <<>>]

\* the item rows a fixture-shaped text is expected to give
ExpectedItemRows(items) ==
    [i \in 1..Len(items) |->
        [No |-> i, Description |-> items[i].description, Quantity |-> items[i].quantity]]

\* C5: for a text laid out like the request-form fixture (labels alone on a
\* line followed by their value line, the marker and headings, k triples, the
\* footer), parseDocxTextToTables returns exactly the header table (totalRows 1,
\* every present field equal to its value line) and then the items table with
\* totalRows = k, row i holding the i-th number as an integer, the description
\* line and the quantity line as text, in text order.
C5_FixtureTables ==
    (rpc = "done" /\ layout.fixture) =>
        tables = << [name |-> "Request Header", totalRows |-> 1,
                     sampleRows |-> <<ExpectedHeaderRow(layout.present)>>],
                    [name |-> "Request Items", totalRows |-> Len(layout.items),
                     sampleRows |-> ExpectedItemRows(layout.items)] >>

C5_Witness ==
    /\ rpc = "done" /\ layout.fixture
    /\ Len(layout.items) >= 2
    /\ \E i \in 1..Len(layout.items) : ~AllDigits(layout.items[i].quantity)
    /\ Cardinality(layout.present) >= 2
    /\ Len(tables) = 2 /\ tables[2].totalRows = Len(layout.items)

\* a line begins with one of the labels of the six header fields
RecognisedLabel(line) ==
    \E f \in HeaderFieldSet : \E k \in 1..Len(HeaderVariants[f]) :
        StartsWith(normalisedKey(line), normalisedKey(HeaderVariants[f][k]))

\* C6: the returned list holds the "Request Header" table (one row with the six
\* canonical field names, totalRows 1) exactly when one of the six fields
\* resolves to a non-empty value, and the "Request Items" table exactly when an
\* item row was collected; a text with no recognised label and no line of
\* digits gives the empty list.
C6_TablesIffContent ==
    rpc = "done" =>
        /\ (\E i \in 1..Len(tables) : tables[i].name = "Request Header")
            <=> (\E f \in HeaderFieldSet :
                    normaliseLine(extractDocxHeaderValue(lines, HeaderVariants[f])) # <<>>)
        /\ \A i \in 1..Len(tables) : tables[i].name = "Request Header" =>
               /\ tables[i].totalRows = 1
               /\ Len(tables[i].sampleRows) = 1
               /\ DOMAIN tables[i].sampleRows[1] = HeaderFieldSet
        /\ (\E i \in 1..Len(tables) : tables[i].name = "Request Items") <=> rows # <<>>
        /\ \A i \in 1..Len(tables) : tables[i].name = "Request Items" =>
               tables[i].totalRows = Len(rows) /\ tables[i].sampleRows = rows
        /\ ((\A i \in 1..Len(lines) : ~RecognisedLabel(lines[i]) /\ ~AllDigits(lines[i]))
               => tables = <<>>)

C6_Witness ==
    /\ rpc = "done"
    /\ TableNames(tables) = <<"Request Header">>
    /\ tables[1].sampleRows[1]["Order Number"] = <<>>
    /\ tables[1].sampleRows[1]["Site"] # <<>>
    /\ \E i \in 1..Len(lines) : AllDigits(lines[i])

\* C7: parseDocxTextToTables raises no error on any input, a string or not (it
\* is always at one of its positions, none of them an error), and what it
\* returns is a list of at most two tables, "Request Header" before "Request
\* Items".
C7_AtMostTwoOrdered ==
    /\ rpc \in {"call", "scan", "exit", "done"}
    /\ rpc = "done" =>
          TableNames(tables) \in {<<>>, <<"Request Header">>, <<"Request Items">>,
                                  <<"Request Header", "Request Items">>}

C7_Witness ==
    /\ rpc = "done" /\ ~layout.fixture
    /\ TableNames(tables) = <<"Request Header", "Request Items">>

\* ---------------------------------------------------------------------
\* Properties of loadDocuments
\* ---------------------------------------------------------------------

NonEmptyBatch == fileEntries.t = "array" /\ fileEntries.v # <<>>

InLoop == pc \in {"entry", "access", "stat", "extract", "checksum"}

\* C1: in a call on a non-empty array, whenever k entries have been processed
\* the documents and the warnings are k together: each entry added exactly one
\* document or one warning, and at the end every entry has been processed
C1_OneOutcomePerEntry ==
    NonEmptyBatch /\ pc # "idle" =>
        /\ Len(documents) + Len(warnings) = idx - 1
        /\ idx - 1 <= Len(fileEntries.v)
        /\ pc = "done" => idx - 1 = Len(fileEntries.v)

\* a batch of a file that loads and a file that cannot be read, both processed
C1_Witness ==
    /\ NonEmptyBatch
    /\ pc = "done"
    /\ Len(fileEntries.v) = 2
    /\ fileEntries.v[2] = JsString(<<"l","o","c","k","e","d",".","t","x","t">>)
    /\ Len(documents) = 1
    /\ Len(warnings) = 1

AMissingBatch == JsArray(<<JsString(<<"a",".","t","x","t">>), JsString(<<"m","i","s","s","i","n","g",".","t","x","t">>)>>)

\* C2: a call on a non-empty array ends with the error "No readable documents
\* were provided." exactly when no document was produced, and with the return of
\* documents and warnings otherwise; no other error ends it, and the error comes
\* after every entry has been processed; a.txt with missing.txt returns one
\* document and one warning naming the missing file
C2_FatalIffNoDocument ==
    NonEmptyBatch /\ pc = "done" =>
        /\ outcome.state \in {"threw", "returned"}
        /\ outcome.state = "threw" <=> documents = <<>>
        /\ outcome.state = "threw" =>
              /\ outcome.message = "No readable documents were provided."
              /\ idx - 1 = Len(fileEntries.v)
        /\ fileEntries = AMissingBatch =>
              /\ outcome = Resolved
              /\ Len(documents) = 1
              /\ Len(warnings) = 1
              /\ warnings[1].path = <<"/","c","w","d","/","m","i","s","s","i","n","g",".","t","x","t">>

\* the call on a.txt and missing.txt has returned
C2_Witness ==
    /\ pc = "done"
    /\ fileEntries = AMissingBatch
    /\ outcome = Resolved

\* the entry names a readable file of a supported type that its loader parses
Loadable(entry) ==
    LET rawPath == IF entry.t = "string" THEN entry ELSE entry.v.path
        explicitType == IF entry.t = "string" THEN JsNull ELSE JsDefault(entry.v.type, JsNull)
        resolved == resolveWorkspacePath(rawPath, workspaceRoot).value
        extType == normaliseType(explicitType, resolved)
    IN /\ entry.t \in {"string", "object"}
       /\ rawPath.t = "string"
       /\ rawPath.v # <<>>
       /\ Readable(fs, resolved)
       /\ extType.t = "string"
       /\ ~loadByType(extType.v, fs, resolved, options.tableSampleRows).threw

\* the path the entry resolves to
ResolvedOf(entry) ==
    resolveWorkspacePath(IF entry.t = "string" THEN entry ELSE entry.v.path, workspaceRoot).value

\* C3: while the loop runs, warnings leave the call pending; when the call on a
\* non-empty array is done every entry has been processed, every entry naming a
\* readable file of a supported type has its document, whatever failed before
\* it, and a call with a document has not thrown
C3_WarningsNeverStopTheBatch ==
    /\ NonEmptyBatch /\ InLoop => outcome = Pending
    /\ NonEmptyBatch /\ pc = "done" =>
          /\ idx - 1 = Len(fileEntries.v)
          /\ \A j \in 1..Len(fileEntries.v) :
                Loadable(fileEntries.v[j]) =>
                    /\ \E d \in 1..Len(documents) :
                          documents[d].path = ResolvedOf(fileEntries.v[j])
                    /\ outcome = Resolved

\* a file that loads after an entry that failed
C3_Witness ==
    /\ NonEmptyBatch
    /\ pc = "done"
    /\ Len(fileEntries.v) = 2
    /\ fileEntries.v[1] = JsString(<<"x",".","c","s","v">>)
    /\ Len(warnings) = 1
    /\ Len(documents) = 1
    /\ documents[1].path = ResolvedOf(fileEntries.v[2])

\* C4: a call on an empty array or on a value that is no array ends at once with
\* the error "Input must include at least one document.": no entry examined, no
\* file touched, nothing collected; a call on a non-empty array never ends with
\* that error
C4_InputShapeError ==
    /\ ~NonEmptyBatch =>
          /\ pc \in {"idle", "done"}
          /\ idx = 0 /\ cur = NoLocals /\ fsLog = <<>>
          /\ documents = <<>> /\ warnings = <<>>
          /\ pc = "done" => outcome = Rejected("Input must include at least one document.")
    /\ NonEmptyBatch =>
          /\ outcome.message # "Input must include at least one document."
          /\ pc = "done" /\ documents = <<>> =>
                outcome = Rejected("No readable documents were provided.")

\* the call on the empty array has thrown
C4_Witness ==
    /\ pc = "done"
    /\ fileEntries = JsArray(<<>>)
    /\ outcome.state = "threw"

\* the supported tags
Tags == {TXT, PDF, DOCX, DOC, XLSX}

\* the tag of an extension, lower case; <<>> for none
TagOfExtension(ext) ==
    CASE ext \in {<<".","t","x","t">>, <<".","t","e","x","t">>, <<".","l","o","g">>, <<".","m","d">>} -> TXT
      [] ext = <<".","p","d","f">> -> PDF
      [] ext = <<".","d","o","c","x">> -> DOCX
      [] ext = <<".","d","o","c">> -> DOC
      [] ext \in {<<".","x","l","s","x">>, <<".","x","l","s">>} -> XLSX
      [] OTHER -> <<>>

\* the type of a hint and a path: the hint in lower case when that is a tag,
\* else the tag of the path's extension, else <<>> (null)
ResolvedType(hint, path) ==
    IF hint.t = "string" /\ ToLowerCase(hint.v) \in Tags
    THEN ToLowerCase(hint.v)
    ELSE TagOfExtension(ToLowerCase(PathExtname(path)))

HintOf(entry) == IF entry.t = "object" THEN entry.v.type ELSE JsUndefined

\* the tags as the specification names them
NamedTags == {<<"t","e","x","t">>, PDF, DOCX, DOC, <<"s","p","r","e","a","d","s","h","e","e","t">>}

NamedTagOfExtension(ext) ==
    CASE ext \in {<<".","t","x","t">>, <<".","t","e","x","t">>, <<".","l","o","g">>, <<".","m","d">>} -> <<"t","e","x","t">>
      [] ext = <<".","p","d","f">> -> PDF
      [] ext = <<".","d","o","c","x">> -> DOCX
      [] ext = <<".","d","o","c">> -> DOC
      [] ext \in {<<".","x","l","s","x">>, <<".","x","l","s">>} -> <<"s","p","r","e","a","d","s","h","e","e","t">>
      [] OTHER -> <<>>

NamedType(hint, path) ==
    IF hint.t = "string" /\ ToLowerCase(hint.v) \in NamedTags
    THEN ToLowerCase(hint.v)
    ELSE NamedTagOfExtension(ToLowerCase(PathExtname(path)))

\* C8 as stated, with the tags text, pdf, docx, doc and spreadsheet: the type
\* the loader works with is the hint in lower case when that is one of these
\* tags, else the tag of the path's extension, and every document's type is
\* one of these tags
C8_AsClaimed ==
    LET hint == HintOf(fileEntries.v[1])
    IN /\ pc \in {"extract", "checksum"} =>
             /\ cur.extType = NamedType(hint, cur.resolvedPath)
             /\ cur.extType \in NamedTags
       /\ \A d \in 1..Len(documents) :
             /\ documents[d].type \in NamedTags
             /\ documents[d].type = NamedType(hint, documents[d].path)

\* C8, amended: the tags are txt, pdf, docx, doc and xlsx; for an entry of a
\* hint and a path, the type the loader works with is the hint in lower case
\* when that is one of these tags, else the tag of the path's
\* extension; every document's type is that tag; and when there is neither, the
\* entry ends as the warning "Unsupported file type" with the call going on
C8_TypeResolution ==
    LET hint == HintOf(fileEntries.v[1])
        expected == ResolvedType(hint, cur.resolvedPath)
    IN /\ pc \in {"extract", "checksum"} =>
             /\ cur.extType = expected
             /\ cur.extType \in Tags
       /\ \A d \in 1..Len(documents) :
             /\ documents[d].type \in Tags
             /\ documents[d].type = ResolvedType(hint, documents[d].path)
       /\ idx = 2 /\ Accessible(fs, cur.resolvedPath) =>
             /\ expected = <<>> <=>
                   /\ Len(warnings) = 1
                   /\ warnings[1].message = "Unsupported file type"
                   /\ warnings[1].detail = JsString(cur.resolvedPath)
             /\ expected = <<>> /\ pc = "entry" => outcome = Pending

\* the hint pdf, in capitals, on a path ending in .txt
C8_Witness ==
    /\ pc = "extract"
    /\ cur.extType = PDF
    /\ HintOf(fileEntries.v[1]) = JsString(<<"P","D","F">>)
    /\ PathExtname(cur.resolvedPath) = <<".","t","x","t">>

\* the root relative paths are resolved against by the priority of the
\* explicit root, WORKSPACE_PATH, the working directory
ClaimedRoot ==
    IF Truthy(options.workspaceRoot) THEN options.workspaceRoot.v
    ELSE IF Truthy(envWorkspacePath) THEN envWorkspacePath.v
    ELSE Cwd

\* C9 as stated: an absolute input path is the result but for its separators,
\* a relative one is resolved against the explicit root, else WORKSPACE_PATH,
\* else the working directory; a document's path is absolute with no backslash
C9_AsClaimed ==
    LET input == fileEntries.v[1].v
    IN /\ pc \in {"access", "stat", "extract", "checksum"} =>
             cur.resolvedPath =
                 IF PathIsAbsolute(input) THEN sanitizePath(input)
                 ELSE sanitizePath(PathResolve(ClaimedRoot, input))
       /\ \A d \in 1..Len(documents) :
             /\ PathIsAbsolute(documents[d].path)
             /\ \A i \in 1..Len(documents[d].path) : documents[d].path[i] # "\\"

\* the root of the call with the white space around it removed, the working
\* directory when nothing is left
EffectiveRoot ==
    IF Trim(ClaimedRoot) # <<>> THEN Trim(ClaimedRoot) ELSE Cwd

\* C9, amended: the input path is taken without the white space around it; when
\* that is absolute it is the result but for its separators, else it is
\* resolved against the first non-empty of the explicit root, WORKSPACE_PATH and
\* the working directory, trimmed, and against the working directory when that
\* is blank; WORKSPACE_PATH plays no part when the explicit root is non-empty;
\* a document's path is absolute with no backslash
C9_PathResolution ==
    LET input == Trim(fileEntries.v[1].v)
    IN /\ pc \in {"access", "stat", "extract", "checksum"} =>
             /\ cur.resolvedPath =
                   IF PathIsAbsolute(input) THEN sanitizePath(input)
                   ELSE sanitizePath(PathResolve(EffectiveRoot, input))
             /\ Truthy(options.workspaceRoot) =>
                   cur.resolvedPath =
                       resolveWorkspacePath(fileEntries.v[1], options.workspaceRoot).value
       /\ \A d \in 1..Len(documents) :
             /\ PathIsAbsolute(documents[d].path)
             /\ \A i \in 1..Len(documents[d].path) : documents[d].path[i] # "\\"

\* a relative path resolved against WORKSPACE_PATH, no explicit root given
C9_Witness ==
    /\ fileEntries.v[1] = JsString(<<"a",".","t","x","t">>)
    /\ options.workspaceRoot = JsUndefined
    /\ envWorkspacePath = JsString(<<"/","e","n","v">>)
    /\ Len(documents) = 1
    /\ documents[1].path = <<"/","e","n","v","/","a",".","t","x","t">>

\* the bytes a document's checksum is of: the UTF-8 encoding of its text for
\* plain text, the file's bytes for the other types
CanonicalBytes(d) ==
    IF d.type = TXT THEN Utf8Encode(d.text) ELSE BytesOf(fs, d.path)

\* C10: every document's checksum is the SHA-256 digest of the UTF-8 encoding of
\* its text when its type is txt and of the file's bytes when it is pdf, docx,
\* doc or xlsx; documents of different such bytes have different checksums
C10_ChecksumOfCanonicalBytes ==
    /\ \A d \in 1..Len(documents) :
          documents[d].checksum = checksum(CanonicalBytes(documents[d]))
    /\ \A d, e \in 1..Len(documents) :
          CanonicalBytes(documents[d]) # CanonicalBytes(documents[e]) =>
              documents[d].checksum # documents[e].checksum

\* a text file whose bytes are no UTF-8, so that its text encodes to other
\* bytes than the file's, loaded next to a PDF
C10_Witness ==
    /\ Len(documents) = 2
    /\ documents[1].type = TXT
    /\ Utf8Encode(documents[1].text) # BytesOf(fs, documents[1].path)
    /\ documents[2].type = PDF
    /\ documents[1].checksum # documents[2].checksum

\* ---------------------------------------------------------------------
\* Properties of repeated calls
\* ---------------------------------------------------------------------

\* the file of path p has the contents it had at the first call
SameContents(p) ==
    /\ p \in DOMAIN fs
    /\ fs[p].dir = earlier[1].fs[p].dir
    /\ fs[p].readable = earlier[1].fs[p].readable
    /\ fs[p].content = earlier[1].fs[p].content

\* C11: when a later call with the same arguments is done, a document of it and
\* a document of the first call for the same file, its contents the same, have
\* the same checksum, charCount, wordCount and tableCount; and with every file
\* of the same contents the later call has as many documents and the same
\* warnings and outcome: nothing of the first call is in it
C11_Idempotent ==
    pc = "done" /\ earlier # <<>> =>
        /\ \A i \in 1..Len(earlier[1].documents), j \in 1..Len(documents) :
              /\ documents[j].path = earlier[1].documents[i].path
              /\ SameContents(documents[j].path)
              => /\ documents[j].checksum = earlier[1].documents[i].checksum
                 /\ documents[j].summary.charCount = earlier[1].documents[i].summary.charCount
                 /\ documents[j].summary.wordCount = earlier[1].documents[i].summary.wordCount
                 /\ documents[j].summary.tableCount = earlier[1].documents[i].summary.tableCount
        /\ (\A p \in DOMAIN fs : SameContents(p)) =>
              /\ Len(documents) = Len(earlier[1].documents)
              /\ warnings = earlier[1].warnings
              /\ outcome = earlier[1].outcome

\* a file loaded twice, written in between with the contents it had
C11_Witness ==
    /\ pc = "done"
    /\ earlier # <<>>
    /\ Len(documents) = 1
    /\ Len(earlier[1].documents) = 1
    /\ SameContents(documents[1].path)
    /\ fs[documents[1].path].mtime # earlier[1].fs[documents[1].path].mtime
    /\ documents[1].checksum = earlier[1].documents[1].checksum

\* ---------------------------------------------------------------------
\* Properties of the summary
\* ---------------------------------------------------------------------

\* the preview of a text for the limit L, as the truncation is described
PreviewFor(txt, L) ==
    IF Len(txt) <= L THEN txt ELSE SubSeq(txt, 1, L) \o <<"hellip">>

\* C12 as stated, for every limit configured as a number: the preview is the
\* text when that has at most L characters, else its first L characters and
\* the marker, and never longer than L + 1
C12_AsClaimed ==
    \A d \in 1..Len(documents) :
        options.previewLimit.t = "number" =>
            /\ documents[d].summary.preview = PreviewFor(documents[d].text, options.previewLimit.v)
            /\ Len(documents[d].summary.preview) <= options.previewLimit.v + 1

\* the limit in force: the configured one when it is a positive number, 6000
\* when it is 0 or not given
LimitInForce ==
    IF options.previewLimit.t = "number" /\ options.previewLimit.v > 0
    THEN options.previewLimit.v
    ELSE 6000

\* C12, amended: with L the configured limit when that is positive and 6000
\* when it is 0 or absent, the preview is the text unchanged when the text has
\* at most L characters (the empty preview for the empty text), else its first
\* L characters followed by the one marker character; its length is at most
\* L + 1
C12_PreviewTruncation ==
    \A d \in 1..Len(documents) :
        /\ documents[d].summary.preview = PreviewFor(documents[d].text, LimitInForce)
        /\ Len(documents[d].summary.preview) <= LimitInForce + 1
        /\ documents[d].text = <<>> => documents[d].summary.preview = <<>>

\* a text longer than the configured limit, cut to it with the marker
C12_Witness ==
    /\ options.previewLimit = JsNumber(3)
    /\ Len(documents) = 1
    /\ Len(documents[1].text) > 3
    /\ Len(documents[1].summary.preview) = 4
    /\ documents[1].summary.preview[4] = "hellip"

\* the positions of a text where a token starts: a character that is no white
\* space, at the start of the text or after white space
TokenStarts(txt) ==
    {i \in 1..Len(txt) :
        /\ txt[i] \notin WhiteSpace
        /\ i = 1 \/ txt[i - 1] \in WhiteSpace}

\* C14: for every document, charCount is the length of its text, wordCount the
\* number of its whitespace-delimited non-empty tokens and tableCount the
\* length of its tables list; an empty text has charCount 0 and wordCount 0
C14_SummaryCounts ==
    \A d \in 1..Len(documents) :
        /\ documents[d].summary.charCount = Len(documents[d].text)
        /\ documents[d].summary.wordCount = Cardinality(TokenStarts(documents[d].text))
        /\ documents[d].summary.tableCount = Len(documents[d].tables)
        /\ documents[d].text = <<>> =>
              documents[d].summary.charCount = 0 /\ documents[d].summary.wordCount = 0

\* the document of a text of 5 characters in 3 tokens
C14_Witness ==
    /\ Len(documents) = 1
    /\ documents[1].text = <<"a", " ", "b", "\n", "b">>
    /\ documents[1].summary.charCount = 5
    /\ documents[1].summary.wordCount = 3
    /\ documents[1].summary.tableCount = 0

\* the document of an empty text file
C14_EmptyFile ==
    /\ Len(documents) = 1
    /\ documents[1].text = <<>>
    /\ documents[1].summary.charCount = 0
    /\ documents[1].summary.wordCount = 0

\* the document of a spreadsheet of two sheets
C14_TwoTables ==
    /\ Len(documents) = 1
    /\ documents[1].type = XLSX
    /\ documents[1].summary.tableCount = 2

\* ---------------------------------------------------------------------
\* Properties of the warnings
\* ---------------------------------------------------------------------

\* C15 as stated: when a call is over, every warning recorded during it is in
\* what the caller was handed, whatever the outcome
C15_AsClaimed ==
    pc = "done" => ReturnValue(outcome, documents, warnings).warnings = warnings

\* C15 for the calls that return: every warning recorded during the call is
\* handed to the caller with its message and detail, in the order of the
\* entries, one warning for each entry without a document; a call that throws
\* hands over the message of its error and no warning
C15_WarningsHandedOnReturn ==
    NonEmptyBatch /\ pc = "done" =>
        LET handed == ReturnValue(outcome, documents, warnings)
        IN IF outcome.state = "returned"
           THEN /\ handed.warnings = warnings
                /\ Len(handed.warnings) + Len(handed.documents) = Len(fileEntries.v)
           ELSE /\ handed.warnings = <<>>
                /\ handed.error = outcome.message

\* a call that returned a document and the warning of its other entry
C15_Witness ==
    /\ NonEmptyBatch
    /\ pc = "done"
    /\ outcome.state = "returned"
    /\ Len(ReturnValue(outcome, documents, warnings).warnings) = 1
    /\ ReturnValue(outcome, documents, warnings).warnings[1].message = "Unable to access"

\* a call that threw after recording a warning
C15_Dropped ==
    /\ pc = "done"
    /\ outcome.state = "threw"
    /\ warnings # <<>>

\* ---------------------------------------------------------------------
\* Properties of the paths that are none
\* ---------------------------------------------------------------------

\* the path a descriptor gives
RawPathOf(entry) ==
    IF entry.t = "string" THEN entry
    ELSE IF entry.t = "object" THEN entry.v.path
    ELSE JsUndefined

\* a path that is missing, no string, or empty
MissingOrEmpty(p) == p.t # "string" \/ p.v = <<>>

\* a path that is missing, no string, empty, or white space only
Blank(p) == p.t # "string" \/ \A i \in 1..Len(p.v) : p.v[i] \in WhiteSpace

\* the warnings of the descriptor checks
ShapeWarnings == {"Skipping invalid document descriptor", "Skipping document with missing path"}

\* the entries the loop has dealt with
Processed == IF pc = "done" THEN Len(fileEntries.v) ELSE idx - 1

\* C16 as stated: while every entry dealt with has a path that is missing,
\* empty or white space only, each has its descriptor-shape warning and no
\* path was resolved into a file system access; and resolveWorkspacePath
\* throws for such a path
C16_AsClaimed ==
    /\ NonEmptyBatch /\ InLoop /\ pc \in {"entry", "done"}
       /\ (\A i \in 1..Processed : Blank(RawPathOf(fileEntries.v[i]))) =>
          /\ fsLog = <<>>
          /\ Len(warnings) = Processed
          /\ \A i \in 1..Len(warnings) : warnings[i].message \in ShapeWarnings
    /\ NonEmptyBatch =>
          \A i \in 1..Len(fileEntries.v) :
              Blank(RawPathOf(fileEntries.v[i])) =>
                 resolveWorkspacePath(RawPathOf(fileEntries.v[i]), workspaceRoot) =
                    Threw("Expected file path to be a non-empty string.")

\* C16 for the paths that are missing, no string, or empty: each has its
\* descriptor-shape warning and is skipped before any path resolution or file
\* system access, and resolveWorkspacePath throws for it
C16_MissingOrEmptyRejected ==
    /\ NonEmptyBatch /\ InLoop /\ pc \in {"entry", "done"}
       /\ (\A i \in 1..Processed : MissingOrEmpty(RawPathOf(fileEntries.v[i]))) =>
          /\ fsLog = <<>>
          /\ Len(warnings) = Processed
          /\ \A i \in 1..Len(warnings) : warnings[i].message \in ShapeWarnings
    /\ NonEmptyBatch =>
          \A i \in 1..Len(fileEntries.v) :
              MissingOrEmpty(RawPathOf(fileEntries.v[i])) =>
                 resolveWorkspacePath(RawPathOf(fileEntries.v[i]), workspaceRoot) =
                    Threw("Expected file path to be a non-empty string.")

\* a batch of an empty path and a missing one, both skipped
C16_Witness ==
    /\ NonEmptyBatch
    /\ pc = "done"
    /\ Len(fileEntries.v) = 2
    /\ \A i \in 1..2 : MissingOrEmpty(RawPathOf(fileEntries.v[i]))
    /\ Len(warnings) = 2
    /\ fsLog = <<>>

\* a path of white space only, resolved to the workspace root and accessed
C16_BlankResolved ==
    /\ NonEmptyBatch
    /\ Len(fileEntries.v) = 1
    /\ fileEntries.v[1] = JsString(<<" ", " ", " ">>)
    /\ pc = "done"
    /\ fsLog # <<>>
    /\ fsLog[1].path = Cwd

\* ---------------------------------------------------------------------
\* Properties of the command line tool
\* ---------------------------------------------------------------------

\* the options object the tool was given, if any
ConfiguredOptions ==
    IF stdin.raw = "json"
    THEN Prop(normaliseInput(JsonOr(stdin.json, EmptyObject)), "options")
    ELSE JsUndefined

\* the tableSampleRows in force: the configured number rounded down and raised
\* to 1, or 10000 when none is configured
SampleRowsInForce ==
    IF ConfiguredOptions.t = "options" /\ ConfiguredOptions.v.tableSampleRows.t = "number"
    THEN LET whole == CHOOSE k \in (0 - 10)..100 :
                         /\ 10 * k <= ConfiguredOptions.v.tableSampleRows.tenths
                         /\ ConfiguredOptions.v.tableSampleRows.tenths < 10 * k + 10
         IN IF whole < 1 THEN 1 ELSE whole
    ELSE 10000

\* the sheets of the file a document was loaded from
SheetsOnDisk(doc) == Contents[fs[doc.path].content].sheets

C13_Example ==
    /\ cli = "exited"
    /\ ConfiguredOptions.t = "options"
    /\ ConfiguredOptions.v.tableSampleRows = JsonNumber(20)
    /\ Len(documents) = 1
    /\ documents[1].tables[1].totalRows = 5
    /\ Len(documents[1].tables[1].sampleRows) = 2

\* the input the tool reads its properties from
InputOnStdin ==
    IF stdin.raw = "json" THEN normaliseInput(JsonOr(stdin.json, EmptyObject)) ELSE EmptyObject

\* a string with a character that is no white space
NonBlankString(x) == x.t = "string" /\ \E i \in 1..Len(x.v) : x.v[i] \notin WhiteSpace

\* the legacy list of the input (files, documents or paths), if it has one
LegacyList ==
    LET lists == <<Prop(InputOnStdin, "files"), Prop(InputOnStdin, "documents"),
                   Prop(InputOnStdin, "paths")>>
        given == {i \in 1..3 : ~Falsy(lists[i])}
    IN IF given = {} THEN JsUndefined
       ELSE lists[CHOOSE i \in given : \A j \in given : i <= j]

\* the input names no file: stdin is empty or no JSON, or the input has no
\* file property that is a string with more than white space and no legacy
\* list of one usable entry
Unusable ==
    \/ stdin.raw # "json"
    \/ /\ ~NonBlankString(Prop(InputOnStdin, "file"))
       /\ \/ LegacyList.t # "array"
          \/ Len(LegacyList.v) # 1
          \/ /\ ~NonBlankString(LegacyList.v[1])
             /\ ~(LegacyList.v[1].t = "object" /\ LegacyList.v[1].v.path.t = "string")

\* the message of the error for an input that names no file
UnusableMessage ==
    IF stdin.raw = "invalid" THEN "Failed to parse JSON from stdin"
    ELSE IF stdin.raw = "json" /\ ~NonBlankString(Prop(InputOnStdin, "file"))
            /\ LegacyList.t = "array"
    THEN IF Len(LegacyList.v) # 1
         THEN "process_documents now accepts exactly one file entry."
         ELSE "Invalid file descriptor. Provide a path string or { path } object."
    ELSE "process_documents requires a \"file\" path to parse."

C17_BlankFile ==
    /\ cli = "exited"
    /\ stdin = JsonStdin(FileInput(JsString(<<" ", " ", " ">>)))
    /\ exitCode = JsNumber(1)
    /\ stdout = <<>>

\* the tool has ended with 1 for a file that could not be read
C17_Unreadable ==
    /\ cli = "exited"
    /\ pc = "done"
    /\ documents = <<>>
    /\ exitCode = JsNumber(1)
    /\ stderr = <<ErrorLine("No readable documents were provided.")>>

\* ---------------------------------------------------------------------
\* Properties of the coralFlow profile
\* ---------------------------------------------------------------------

\* the name a raw material gives: the first of its name properties that is
\* not empty, trimmed
RawName(raw) ==
    LET given == <<raw.name, raw.material_name, raw.item, raw.description>>
        set == {i \in 1..4 : given[i].t = "string" /\ given[i].v # <<>>}
    IN IF set = {} THEN <<>>
       ELSE Trim(given[CHOOSE i \in set : \A j \in set : i <= j].v)

\* the raw materials that have a name, in the order of the input
RECURSIVE Named(_)
Named(raws) ==
    IF raws = <<>> THEN <<>>
    ELSE IF RawName(raws[1].v) # <<>> THEN <<raws[1].v>> \o Named(Tail(raws))
    ELSE Named(Tail(raws))

CoralDone == coral.pc = "done"

JobIdDetected == Truthy(coral.job.job_id)

\* the operations are createJob first exactly when a job_id was detected, then
\* one createMaterial for every retained material in the order of the input; a
\* material without a name is skipped with a warning; every retained material
\* has a material_id
OperationsInOrder ==
    LET raws == Named(RawMaterials(coral.json))
        first == IF JobIdDetected THEN 1 ELSE 0
    IN /\ Len(coral.operations) = first + Len(coral.materials)
       /\ JobIdDetected =>
             coral.operations[1] = Operation("createJob", coral.job)
       /\ ~JobIdDetected =>
             \A i \in 1..Len(coral.operations) : coral.operations[i].method # "createJob"
       /\ Len(coral.materials) = Len(raws)
       /\ \A i \in 1..Len(coral.materials) :
             /\ coral.operations[first + i] = Operation("createMaterial", coral.materials[i])
             /\ coral.materials[i].name = JsString(RawName(raws[i]))
             /\ coral.materials[i].material_id.t = "string"
             /\ coral.materials[i].material_id.v # <<>>
       /\ Cardinality({w \in 1..Len(coral.warnings) :
                          coral.warnings[w].kind =
                             "Material entry is missing a name and was skipped."})
             = Len(RawMaterials(coral.json)) - Len(raws)

C18_Skipped ==
    /\ CoralDone
    /\ ~JobIdDetected
    /\ Len(RawMaterials(coral.json)) = 2
    /\ Len(coral.operations) = 1

\* ---------------------------------------------------------------------
\* Properties of the structured extraction tool
\* ---------------------------------------------------------------------

NoCredentials == \A k \in llmEnv : k \notin CredentialKeys

\* the profile the input asks for: its profile property, or else that of its
\* options
RequestedProfile ==
    IF ~Falsy(Prop(InputOnStdin, "profile")) THEN Prop(InputOnStdin, "profile")
    ELSE IF ConfiguredOptions.t = "options" THEN ConfiguredOptions.v.profile
    ELSE JsUndefined

CoralFlowRequested ==
    /\ RequestedProfile.t = "string"
    /\ ToLowerCase(Trim(RequestedProfile.v)) = <<"c","o","r","a","l","f","l","o","w">>

\* C19: without a credential the tool ends with the exit code 0 whenever
\* loadDocuments returned; its result has the status "fallback", one projected
\* entry per document with the document's summary and sample table rows, every
\* warning of the loader followed by the warning that no credentials were
\* detected, no persistoOperations, and the profile "coralFlow" when that was
\* requested
C19_FallbackWithoutCredentials ==
    cli = "exited" /\ NoCredentials =>
        /\ exitCode = JsNumber(0) <=> (pc = "done" /\ outcome.state = "returned")
        /\ exitCode = JsNumber(0) =>
              /\ Len(stdout) = 1
              /\ stdout[1].status = "fallback"
              /\ stdout[1].provider = JsNull
              /\ stdout[1].data = JsNull
              /\ Len(stdout[1].documents) = Len(documents)
              /\ \A i \in 1..Len(documents) :
                    /\ stdout[1].documents[i].path = documents[i].path
                    /\ stdout[1].documents[i].summary = documents[i].summary
                    /\ stdout[1].documents[i].tables = documents[i].tables
              /\ Len(stdout[1].warnings) = Len(warnings) + 1
              /\ SubSeq(stdout[1].warnings, 1, Len(warnings)) = warnings
              /\ stdout[1].warnings[Len(warnings) + 1].message =
                    "No LLM credentials detected; returning document previews only."
              /\ stdout[1].persistoOperations = <<>>
              /\ CoralFlowRequested => stdout[1].profile = JsString(<<"c","o","r","a","l","F","l","o","w">>)

\* the fallback result for two documents, one of them a spreadsheet with its
\* sample rows, and the profile coralFlow
C19_Witness ==
    /\ cli = "exited"
    /\ NoCredentials
    /\ CoralFlowRequested
    /\ exitCode = JsNumber(0)
    /\ Len(stdout) = 1
    /\ stdout[1].status = "fallback"
    /\ Len(stdout[1].documents) = 2
    /\ stdout[1].documents[2].tables # <<>>
    /\ stdout[1].profile = JsString(<<"c","o","r","a","l","F","l","o","w">>)
    /\ stdout[1].persistoOperations = <<>>

\* the fallback result that keeps a warning of the loader
C19_LoaderWarningKept ==
    /\ cli = "exited"
    /\ NoCredentials
    /\ exitCode = JsNumber(0)
    /\ Len(stdout) = 1
    /\ Len(stdout[1].warnings) = 2
    /\ stdout[1].warnings[1].message = "Unable to access"

\* ---------------------------------------------------------------------
\* Properties of the header extraction
\* ---------------------------------------------------------------------

LabelKeys(f) == {normalisedKey(HeaderVariants[f][k]) : k \in 1..Len(HeaderVariants[f])}

\* the line is exactly a label of the field, with nothing else
LabelOnly(line, f) == normalisedKey(line) \in LabelKeys(f) /\ InlineMatch(line) = <<>>

\* the line is exactly a label of one of the six fields
LooksLikeLabel(line) == \E g \in HeaderFieldSet : normalisedKey(line) \in LabelKeys(g)

\* line i is the first line that begins with a label of the field, and it is
\* that label alone, with a line after it
FirstLabelAlone(f, i) ==
    /\ i \in 1..(Len(lines) - 1)
    /\ LabelOnly(lines[i], f)
    /\ \A j \in 1..(i - 1) : \A key \in LabelKeys(f) : ~StartsWith(normalisedKey(lines[j]), key)

\* the value the returned header table holds for the field, empty without one
HeaderValueReturned(f) ==
    IF tables # <<>> /\ tables[1].name = "Request Header"
    THEN tables[1].sampleRows[1][f]
    ELSE <<>>

\* C20 as claimed: the line after a label alone is never the value of the
\* field when it is itself a label of any of the six fields
C20_AsClaimed ==
    rpc = "done" =>
        \A f \in HeaderFieldSet : \A i \in 1..Len(lines) :
            FirstLabelAlone(f, i) /\ LooksLikeLabel(lines[i + 1])
                => HeaderValueReturned(f) # normaliseLine(lines[i + 1])

\* C20: after the first line that is a label of the field alone, the next
\* line is the value of the field when it is not a label of that same field,
\* and is not the value when it is one
C20_OwnLabelNeverValue ==
    rpc = "done" =>
        \A f \in HeaderFieldSet : \A i \in 1..Len(lines) :
            FirstLabelAlone(f, i) =>
                IF normalisedKey(lines[i + 1]) \in LabelKeys(f)
                THEN HeaderValueReturned(f) # normaliseLine(lines[i + 1])
                ELSE HeaderValueReturned(f) = normaliseLine(lines[i + 1])

\* a label alone followed by another label of its field, which is not taken
C20_Witness ==
    /\ rpc = "done"
    /\ ~layout.fixture
    /\ FirstLabelAlone("Site", 1)
    /\ normalisedKey(lines[2]) \in LabelKeys("Site")
    /\ Len(lines) = 3
    /\ HeaderValueReturned("Site") # <<>>
    /\ HeaderValueReturned("Site") # normaliseLine(lines[2])

\* a label alone followed by the label of another field, which is taken
C20_OtherLabelTaken ==
    /\ rpc = "done"
    /\ FirstLabelAlone("Site", 1)
    /\ LooksLikeLabel(lines[2])
    /\ HeaderValueReturned("Site") = <<"P","r","o","j","e","c","t">>

\* ---------------------------------------------------------------------
\* Properties of the item scan
\* ---------------------------------------------------------------------

\* the 0-based index of the first line at index from or later for which hit
\* holds, none when there is no such line
FirstFrom(hit(_), ls, from, none) ==
    LET found == {i \in from..(Len(ls) - 1) : hit(ls[i + 1])}
    IN IF found = {} THEN none
       ELSE CHOOSE i \in found : \A j \in found : i <= j

IsStoresUse(line) == Includes(normalisedKey(line), <<"s","t","o","r","e","s"," ","u","s","e">>)
IsQuantityRequired(line) == normalisedKey(line) = <<"q","u","a","n","t","i","t","y"," ","r","e","q","u","i","r","e","d">>
IsEndMarker(line) == IsEndSection(normalisedKey(line))

\* s: right after the first "stores use" line, or else right after the first
\* line that is exactly "quantity required", or else 0
WindowStart(ls) ==
    IF \E i \in 1..Len(ls) : IsStoresUse(ls[i])
    THEN FirstFrom(IsStoresUse, ls, 0, 0) + 1
    ELSE IF \E i \in 1..Len(ls) : IsQuantityRequired(ls[i])
    THEN FirstFrom(IsQuantityRequired, ls, 0, 0) + 1
    ELSE 0

\* the lines of the rows, as a set
RowLines == {rows[i].Description : i \in 1..Len(rows)}
            \cup {rows[i].Quantity : i \in 1..Len(rows)}

LinesIn(ls, s, e) == {ls[i] : i \in (s + 1)..e}

\* C21 as claimed: the window ends at the first end-of-section marker at index
\* s or later, and every row is made of lines of that window
C21_AsClaimed ==
    rpc \in {"scan", "exit", "done"} /\ lines # <<>> =>
        LET s == WindowStart(lines)
            e == FirstFrom(IsEndMarker, lines, s, Len(lines))
        IN /\ scopedLines = SubSeq(lines, s + 1, e)
           /\ RowLines \subseteq LinesIn(lines, s, e)

\* C21: the window starts at s and ends at the first end-of-section marker
\* after index s (the line at s itself is not tested), or at the last line;
\* the scan works on these lines only and every row is made of them
C21_ScanWindow ==
    rpc \in {"scan", "exit", "done"} /\ lines # <<>> =>
        LET s == WindowStart(lines)
            e == FirstFrom(IsEndMarker, lines, s + 1, Len(lines))
        IN /\ scopedLines = SubSeq(lines, s + 1, e)
           /\ cursor <= Len(scopedLines)
           /\ RowLines \subseteq LinesIn(lines, s, e)

\* a window that starts after a heading and ends at a marker, with a triple
\* after the marker that gives no row
C21_Witness ==
    /\ rpc = "done"
    /\ lines # <<>>
    /\ WindowStart(lines) = 1
    /\ FirstFrom(IsEndMarker, lines, 2, Len(lines)) = 4
    /\ Len(lines) = 8
    /\ Len(rows) = 1
    /\ rows[1].Description = <<"p","i","p","e">>

\* the marker on the first line of the window is passed over
C21_MarkerAtStart ==
    /\ rpc = "done"
    /\ lines # <<>>
    /\ WindowStart(lines) < Len(lines)
    /\ IsEndMarker(lines[WindowStart(lines) + 1])
    /\ Len(rows) = 1

IsNoise(line) == isDocxNoiseLine(line, buildDocxNoiseSet)
IsRealLine(line) == ~IsNoise(line)

\* the 0-based index of the first line at index from or later that is not a
\* noise line, the number of lines when there is none
NextReal(ls, from) == FirstFrom(IsRealLine, ls, from, Len(ls))

\* a line of digits only that reads as an integer of 1..500
IsRowNumberLine(line) ==
    /\ line # <<>>
    /\ \A i \in 1..Len(line) : line[i] \in Digits
    /\ DigitsValue(line) \in 1..DEFAULT_MAX_REQUEST_ITEMS

IsDescriptionLine(line) ==
    /\ line # <<>>
    /\ \E i \in 1..Len(line) : line[i] \notin Digits
    /\ ~IsNoise(line)

HasNumericToken(line) == \E i \in 1..Len(line) : line[i] \in Digits

\* line n (0-based) is a row number, the next line that is not noise is a
\* description, and there is a line that is not noise after it
CandidateAt(ls, n) ==
    /\ n < Len(ls)
    /\ IsRowNumberLine(ls[n + 1])
    /\ NextReal(ls, n + 1) < Len(ls)
    /\ IsDescriptionLine(ls[NextReal(ls, n + 1) + 1])
    /\ NextReal(ls, NextReal(ls, n + 1) + 1) < Len(ls)

DescriptionOf(ls, n) == NextReal(ls, n + 1)
QuantityOf(ls, n) == NextReal(ls, NextReal(ls, n + 1) + 1)

\* a row number and a description whose quantity line holds no number
MissingQuantityAt(ls, n) ==
    CandidateAt(ls, n) /\ ~HasNumericToken(ls[QuantityOf(ls, n) + 1])

\* a row number, a description and a quantity
TripleAt(ls, n) ==
    CandidateAt(ls, n) /\ HasNumericToken(ls[QuantityOf(ls, n) + 1])

RowOf(ls, n) ==
    [No |-> DigitsValue(ls[n + 1]),
     Description |-> ls[DescriptionOf(ls, n) + 1],
     Quantity |-> ls[QuantityOf(ls, n) + 1]]

\* the rows of the triples found from line from on, each triple looked for
\* after the quantity line of the one before
RECURSIVE TriplesFrom(_, _)
TriplesFrom(ls, from) ==
    LET found == {n \in from..(Len(ls) - 1) : TripleAt(ls, n)}
        first == CHOOSE n \in found : \A m \in found : n <= m
    IN IF found = {} THEN <<>>
       ELSE <<RowOf(ls, first)>> \o TriplesFrom(ls, QuantityOf(ls, first) + 1)

BacktrackStep ==
    (rpc = "scan" /\ MissingQuantityAt(scopedLines, cursor)) =>
        /\ rpc' = "scan"
        /\ rows' = rows
        /\ cursor' = DescriptionOf(scopedLines, cursor) + 1

AllTriplesEmitted ==
    rpc \in {"scan", "exit", "done"} =>
        rows \o TriplesFrom(scopedLines, cursor) = TriplesFrom(scopedLines, 0)

WindowLineSet == {scopedLines[j] : j \in 1..Len(scopedLines)}

C23_OutOfRange ==
    /\ rpc = "done"
    /\ <<"5","0","1">> \in WindowLineSet
    /\ <<"0">> \in WindowLineSet
    /\ rows = <<>>

CursorAdvances == (rpc = "scan" /\ rpc' = "scan") => cursor' > cursor

CursorInWindow ==
    rpc \in {"scan", "exit", "done"} => cursor \in 0..Len(scopedLines)

\* the iteration leaves the loop, or moves the cursor to a greater index that
\* is not past the end of the window
Progresses(it) ==
    it.brk \/ (it.cursor > cursor /\ it.cursor <= Len(scopedLines))

IterationProgresses ==
    (rpc = "scan" /\ ScanContinues(scopedLines, cursor, rows)) =>
        Progresses(ScanIteration(scopedLines, cursor, rows))

\* C26: the cursor stays within 0..length of the window; the iteration that
\* is about to run leaves the loop or moves the cursor to a greater index,
\* whichever of its branches it takes; every step of the loop moves the
\* cursor forward. The window's length minus the cursor is then a measure that
\* decreases with every iteration, which bounds the iterations by the number
\* of lines of the window
C26_ScanTerminates ==
    [][CursorAdvances]_vars /\ [](CursorInWindow /\ IterationProgresses)

\* a scan that rejected a line, backtracked from a candidate past the start
\* of the window, emitted a row and reached the end of the window
C26_Witness ==
    /\ rpc = "done"
    /\ Len(scopedLines) = 8
    /\ MissingQuantityAt(scopedLines, 1)
    /\ cursor = Len(scopedLines)
    /\ Len(rows) = 1

\* the row-number indices of the triples found from line from on, each triple
\* looked for after the quantity line of the one before
RECURSIVE TripleStarts(_, _)
TripleStarts(ls, from) ==
    LET found == {n \in from..(Len(ls) - 1) : TripleAt(ls, n)}
        first == CHOOSE n \in found : \A m \in found : n <= m
    IN IF found = {} THEN <<>>
       ELSE <<first>> \o TripleStarts(ls, QuantityOf(ls, first) + 1)

\* a step that emits a row builds it from the line at the cursor, a later
\* line and a still later line, and leaves the cursor after the last
RowStep ==
    (rpc = "scan" /\ Len(rows') = Len(rows) + 1) =>
        /\ cursor < DescriptionOf(scopedLines, cursor)
        /\ DescriptionOf(scopedLines, cursor) < QuantityOf(scopedLines, cursor)
        /\ QuantityOf(scopedLines, cursor) < Len(scopedLines)
        /\ rows' = Append(rows, RowOf(scopedLines, cursor))
        /\ cursor' = QuantityOf(scopedLines, cursor) + 1

CursorNeverBack == rpc = "scan" => cursor' >= cursor

\* row i is made of the lines n_i < d_i < q_i, all before the cursor, and
\* q_i < n_(i+1)
RowsInOrder(starts) ==
    /\ Len(rows) <= Len(starts)
    /\ \A i \in 1..Len(rows) :
          /\ rows[i] = RowOf(scopedLines, starts[i])
          /\ starts[i] < DescriptionOf(scopedLines, starts[i])
          /\ DescriptionOf(scopedLines, starts[i]) < QuantityOf(scopedLines, starts[i])
          /\ QuantityOf(scopedLines, starts[i]) < cursor
          /\ i > 1 => QuantityOf(scopedLines, starts[i - 1]) < starts[i]

RowsDisjoint ==
    rpc \in {"scan", "exit", "done"} => RowsInOrder(TripleStarts(scopedLines, 0))

\* C27: every row is built from a row-number line, a later description line
\* and a still later quantity line, the next row's lines all come after that
\* quantity line, and the cursor, which never goes back, is past every line
\* used
C27_RowsUseDisjointLines ==
    [][RowStep /\ CursorNeverBack]_vars /\ []RowsDisjoint

\* two rows, the first with noise lines between its lines
C27_Witness ==
    /\ rpc = "done"
    /\ Len(rows) = 2
    /\ TripleStarts(scopedLines, 0) = <<0, 5>>
    /\ DescriptionOf(scopedLines, 0) = 2
    /\ QuantityOf(scopedLines, 0) = 4

\* ---------------------------------------------------------------------
\* Properties of the order of processing
\* ---------------------------------------------------------------------

HasPath(entry) ==
    /\ entry.t \in {"string", "object"}
    /\ RawPathOf(entry).t = "string"
    /\ RawPathOf(entry).v # <<>>

DocumentOfEntry(entry, d) == HasPath(entry) /\ d.path = ResolvedOf(entry)

WarningOfEntry(entry, w) ==
    IF HasPath(entry)
    THEN w.message \notin ShapeWarnings
         /\ (w.path = ResolvedOf(entry) \/ w.detail = JsString(ResolvedOf(entry)))
    ELSE w.message \in ShapeWarnings

\* the entries 1..n that kind gives the value k, in order
EntriesOfKind(kind, k, n) ==
    LET Is(i) == kind[i] = k
    IN SelectSeq([i \in 1..n |-> i], Is)

\* each of the first n entries gave a document or a warning, and documents
\* and warnings list them in the order of the entries
ResultsInOrder(n) ==
    \E kind \in [1..n -> {"document", "warning"}] :
        /\ Len(documents) = Len(EntriesOfKind(kind, "document", n))
        /\ Len(warnings) = Len(EntriesOfKind(kind, "warning", n))
        /\ \A k \in 1..Len(documents) :
              DocumentOfEntry(fileEntries.v[EntriesOfKind(kind, "document", n)[k]], documents[k])
        /\ \A k \in 1..Len(warnings) :
              WarningOfEntry(fileEntries.v[EntriesOfKind(kind, "warning", n)[k]], warnings[k])

AccessesLogged == Len(SelectSeq(fsLog, LAMBDA e : e.op = "access"))

\* the entries, up to the one in hand, that got as far as the access check
AccessesDue ==
    Cardinality({i \in 1..Len(fileEntries.v) :
                    /\ HasPath(fileEntries.v[i])
                    /\ \/ i < idx
                       \/ i = idx /\ pc \in {"stat", "extract", "checksum"}})

OneAtATime ==
    (NonEmptyBatch /\ idx >= 1) =>
        /\ ResultsInOrder(idx - 1)
        /\ AccessesLogged = AccessesDue

\* a step deals with the entry at idx only, moves on by one entry at most, and
\* appends at most one document or one warning, which ends the entry
OneStep ==
    (NonEmptyBatch /\ idx >= 1) =>
        /\ idx' \in {idx, idx + 1}
        /\ Len(fsLog') >= Len(fsLog)
        /\ SubSeq(fsLog', 1, Len(fsLog)) = fsLog
        /\ \A k \in (Len(fsLog) + 1)..Len(fsLog') :
              fsLog'[k].path = ResolvedOf(fileEntries.v[idx])
        /\ Len(documents') + Len(warnings') \in
              {Len(documents) + Len(warnings), Len(documents) + Len(warnings) + 1}
        /\ Len(documents') >= Len(documents)
        /\ Len(warnings') >= Len(warnings)
        /\ SubSeq(documents', 1, Len(documents)) = documents
        /\ SubSeq(warnings', 1, Len(warnings)) = warnings
        /\ (Len(documents') + Len(warnings') > Len(documents) + Len(warnings))
              => idx' = idx + 1

\* C24: every step of a call works on the entry at idx alone and idx moves
\* forward one entry at a time; each entry with a path has its access check
\* once; documents and warnings only grow, by one element that ends the entry;
\* and at every point they list, in the order of the entries, one document or
\* one warning for each entry dealt with, identical entries included
C24_SequentialInOrder == [][OneStep]_vars /\ []OneAtATime

\* a returned call on a missing file, a file that loads and the same missing
\* file again: one document and two identical warnings
C24_Witness ==
    /\ pc = "done"
    /\ outcome.state = "returned"
    /\ Len(fileEntries.v) = 3
    /\ fileEntries.v[1] = fileEntries.v[3]
    /\ Len(documents) = 1
    /\ Len(warnings) = 2
    /\ warnings[1] = warnings[2]
    /\ warnings[1].message = "Unable to access"

\* two documents in the order of their entries
C24_TwoDocuments ==
    /\ pc = "done"
    /\ outcome.state = "returned"
    /\ Len(documents) = 2
    /\ documents[1].path = <<"/","c","w","d","/","b",".","t","x","t">>
    /\ documents[2].path = <<"/","c","w","d","/","a",".","t","x","t">>

\* ---------------------------------------------------------------------
\* Properties of the tables of a document
\* ---------------------------------------------------------------------

\* the sheets of the file, each with at most n sample rows
SheetsCapped(c, n) ==
    [i \in 1..Len(c.sheets) |->
        [name |-> c.sheets[i].name,
         totalRows |-> Len(c.sheets[i].rows),
         sampleRows |-> [k \in 1..(IF n < Len(c.sheets[i].rows) THEN n ELSE Len(c.sheets[i].rows))
                            |-> c.sheets[i].rows[k]]]]

SampleRowsAsked ==
    IF options.tableSampleRows.t = "number" THEN options.tableSampleRows.v
    ELSE DEFAULT_TABLE_SAMPLE_ROWS

\* C25: the tables of a docx document are parseDocxTextToTables of its text,
\* whatever tableSampleRows is; the tables of a spreadsheet document are its
\* sheets with the sample rows cut at tableSampleRows; the tables of a txt,
\* pdf or doc document are the empty list
C25_TablesByType ==
    \A i \in 1..Len(documents) :
        LET d == documents[i]
        IN /\ d.type = DOCX => d.tables = parseDocxTextToTables(JsString(d.text))
           /\ d.type = XLSX =>
                 d.tables = SheetsCapped(Contents[fs[d.path].content], SampleRowsAsked)
           /\ d.type \in {TXT, PDF, DOC} => d.tables = <<>>
           /\ d.type \in {TXT, PDF, DOC, DOCX, XLSX}

\* with tableSampleRows 1: a docx document whose items table has two rows,
\* after a spreadsheet document whose sheet of five rows has one sample row
C25_Witness ==
    /\ pc = "done"
    /\ options.tableSampleRows = JsNumber(1)
    /\ Len(documents) = 2
    /\ documents[1].type = XLSX
    /\ documents[1].tables[1].totalRows = 5
    /\ Len(documents[1].tables[1].sampleRows) = 1
    /\ documents[2].type = DOCX
    /\ Len(documents[2].tables) = 2
    /\ documents[2].tables[2].name = "Request Items"
    /\ Len(documents[2].tables[2].sampleRows) = 2

\* documents of the types without tables
C25_NoTables ==
    /\ pc = "done"
    /\ Len(documents) = 2
    /\ documents[1].type = PDF /\ documents[1].tables = <<>>
    /\ documents[2].type = DOC /\ documents[2].tables = <<>>

\* ---------------------------------------------------------------------
\* Properties of the page count
\* ---------------------------------------------------------------------

\* the pages pdf-parse counts in the file of the document
PagesOfFile(d) == Contents[fs[d.path].content].numpages

\* the document with metadata.pageCount set, as a caller of the formatter
\* may build it
WithPageCount(d, n) ==
    [k \in DOMAIN d \cup {"metadata"} |->
        IF k = "metadata" THEN [pageCount |-> n] ELSE d[k]]

ToolPrinted == cli = "exited" /\ exitCode = JsNumber(0) /\ Len(stdout) = 1

\* C28 as claimed: the tool prints the "Pages" line, with the page count of
\* the file, for every pdf document loadDocuments produced
C28_AsClaimed ==
    ToolPrinted =>
        \A i \in 1..Len(documents) :
            documents[i].type = PDF => stdout[1][i].pages = PagesOfFile(documents[i])

\* C28: a document of loadDocuments has no metadata property, so the tool
\* prints no "Pages" line for it, although the formatter prints the line for
\* the same document once metadata.pageCount is set
C28_PageCountDropped ==
    /\ \A i \in 1..Len(documents) : "metadata" \notin DOMAIN documents[i]
    /\ ToolPrinted =>
          \A i \in 1..Len(documents) :
              /\ stdout[1][i].pages = 0
              /\ formatDocument(WithPageCount(documents[i], 2), i - 1).pages = 2

\* the tool printed a pdf document of a file of two pages
C28_Witness ==
    /\ ToolPrinted
    /\ Len(documents) = 1
    /\ documents[1].type = PDF
    /\ PagesOfFile(documents[1]) = 2
    /\ stdout[1][1].type = PDF
    /\ stdout[1][1].pages = 0

\* ---------------------------------------------------------------------
\* Properties of a document built while its file is written
\* ---------------------------------------------------------------------

\* the contents the file of a path may have held during a call
HeldContents(p) == {Disk[p].content} \cup RaceContents

\* what the loader of the document's type gives for the file holding c
LoadOf(c, d) ==
    loadByType(d.type, [fs EXCEPT ![d.path] = File(c)], d.path, options.tableSampleRows)

\* the text and the tables of the document are those extracted from c
ExtractedFrom(c, d) ==
    LET r == LoadOf(c, d)
    IN /\ ~r.threw
       /\ d.text = r.value.text
       /\ d.tables = (IF r.value.hasTables THEN r.value.tables ELSE <<>>)

\* the checksum of the document is the one of the file holding c: of its
\* bytes, or for txt of the encoding of the text read from it
HashedFrom(c, d) ==
    d.checksum = checksum(binaryOf(d.type, [text |-> Utf8Decode(Contents[c].bytes)],
                                   Contents[c].bytes))

\* C29: every document's checksum is the hash of the very contents of the file
\* its text and tables were extracted from, whatever its type, also when
\* another process writes the file while loadDocuments is between two steps
C29_AsClaimed ==
    \A k \in 1..Len(documents) :
        \E c \in HeldContents(documents[k].path) :
            ExtractedFrom(c, documents[k]) /\ HashedFrom(c, documents[k])

\* C29, as the code has it: a txt or pdf document, whose file is read once,
\* has its text and its checksum of the same contents; a docx, doc or xlsx
\* document has its text and tables of the contents the loader read and its
\* checksum of the contents the later read found, the same when the file was
\* not written meanwhile
C29_OneReadConsistent ==
    \A k \in 1..Len(documents) :
        LET d == documents[k]
        IN /\ d.type \in {TXT, PDF} =>
                 \E c \in HeldContents(d.path) : ExtractedFrom(c, d) /\ HashedFrom(c, d)
           /\ d.type \in {DOCX, DOC, XLSX} =>
                 /\ \E c \in HeldContents(d.path) : ExtractedFrom(c, d)
                 /\ \E c \in HeldContents(d.path) : HashedFrom(c, d)
                 /\ fs[d.path] = Disk[d.path] =>
                        ExtractedFrom(Disk[d.path].content, d) /\ HashedFrom(Disk[d.path].content, d)

\* a pdf written during the call, after the stat and before the read: the
\* document has the size of the old file and the text and the checksum of
\* what was written
C29_Witness ==
    /\ pc = "done"
    /\ Len(documents) = 1
    /\ documents[1].type = PDF
    /\ documents[1].stats.size = Len(Contents["pdf"].bytes)
    /\ ExtractedFrom("pdf2", documents[1])
    /\ HashedFrom("pdf2", documents[1])

\* ---------------------------------------------------------------------
\* Properties of the status of the structured result
\* ---------------------------------------------------------------------

\* the tool has printed its result
StructPrinted == cli = "exited" /\ Len(stdout) = 1

\* the result carries previews only: no data, no profile result, no operations
PreviewsOnly(r) ==
    /\ r.data = JsNull
    /\ r.profileResult = JsUndefined
    /\ r.persistoOperations = <<>>

\* the coralflow profile was asked for
ProfileAsked == tool.profile = JsString(<<"c","o","r","a","l","f","l","o","w">>)

\* C30: the status of the result is ok only if the extraction and the
\* normalisation of the profile both completed, and a result whose status is
\* degraded or fallback carries previews only: its data is null, it has no
\* profileResult and its persistoOperations are empty
C30_AsClaimed ==
    StructPrinted =>
        /\ stdout[1].status = "ok" =>
               /\ tool.execution.llm.used /\ tool.execution.llm.error = ""
               /\ ProfileAsked => coral.pc = "done"
        /\ stdout[1].status # "ok" => PreviewsOnly(stdout[1])

\* C30, as the code has it: the status is ok only if the extraction and the
\* profile both completed; a result that is not ok has no profileResult and no
\* operations; a fallback result and a degraded one whose extraction failed have
\* data null, while a degraded result whose profile normalisation threw keeps
\* the data the extraction answered
C30_DataKeptWhenProfileThrew ==
    StructPrinted =>
        /\ stdout[1].status \in {"ok", "degraded", "fallback"}
        /\ stdout[1].status = "ok" =>
               /\ tool.execution.llm.used /\ tool.execution.llm.error = ""
               /\ stdout[1].data # JsNull
               /\ ProfileAsked => coral.pc = "done" /\ stdout[1].profileResult # JsUndefined
        /\ stdout[1].status # "ok" =>
               /\ stdout[1].profileResult = JsUndefined
               /\ stdout[1].persistoOperations = <<>>
        /\ stdout[1].status = "fallback" =>
               /\ ~tool.execution.llm.used
               /\ stdout[1].data = JsNull
        /\ stdout[1].status = "degraded" =>
               /\ tool.execution.llm.used /\ tool.execution.llm.error # ""
               /\ stdout[1].warnings[Len(stdout[1].warnings)]
                      = LlmFailedWarning(tool.execution.llm.error)
               /\ coral.pc = "threw" <=> stdout[1].data # JsNull
               /\ coral.pc = "threw" => stdout[1].data = [t |-> "json", v |-> coral.json]

\* a degraded result after the profile normalisation threw on a job_id that is
\* a number: the data of the extraction is printed, without profile result
C30_Witness ==
    /\ StructPrinted
    /\ stdout[1].status = "degraded"
    /\ coral.pc = "threw"
    /\ coral.json.job.v.job_id.t = "number"
    /\ stdout[1].data # JsNull
    /\ stdout[1].profileResult = JsUndefined

====
